---- MODULE Spec2Model ----
(***************************************************************************)
(* PackedLinkedList<T, COUNT> of src/src/packed_linked_list/mod.rs: an      *)
(* unrolled doubly linked list whose nodes hold up to COUNT values, with    *)
(* its cursors.                                                             *)
(*                                                                          *)
(* Nodes live in a heap addressed by node ids (the NonNull pointers of the  *)
(* source).  An id outside DOMAIN heap is memory that is not allocated:     *)
(* never allocated, or freed by Box::from_raw + drop.  A call that would    *)
(* dereference such an id leaves defined behaviour; the model records it in *)
(* `fault` and follows the program no further.                              *)
(*                                                                          *)
(* A MaybeUninit slot whose value was moved out (or never written) holds    *)
(* Uninit.                                                                  *)
(***************************************************************************)
EXTENDS Integers, Sequences, FiniteSets, TLC

\* ------------------------------------------------------------------ bounds
\* Largest node capacity COUNT explored (the const generic of the list).
MaxCount == 3
\* Number of heap addresses a node can be allocated at.
MaxNodes == 3
\* Element values pushed or inserted are 1..MaxVal.
MaxVal == 2
\* Pushes and inserts are enabled while len < MaxLen.
MaxLen == 4
\* insert_after is called at most MaxInserts times in a run.
MaxInserts == 1
\* Node::push_after and Node::push_before are enabled while fewer than
\* MaxNodePushes of them were called.
MaxNodePushes == 2

VARIABLES
    COUNT,   \* the const generic COUNT of PackedLinkedList<T, COUNT>
    heap,    \* allocated nodes: node id -> Node
    first,   \* PackedLinkedList.first (NULL = None)
    last,    \* PackedLinkedList.last (NULL = None)
    len,     \* PackedLinkedList.len
    cursor,  \* the CursorMut currently borrowing the list, if any
    op,      \* the last operation called: its name, argument and return value
    inserts, \* calls of insert_after (of Node::push_after / push_before) so far
    fault,   \* "none", or how the program stopped: "use_after_free", "panic_overflow"
    linked   \* the plain LinkedList<T>: its nodes, start and end

vars == <<COUNT, heap, first, last, len, cursor, op, inserts, fault, linked>>

\* ------------------------------------------------------------ basic values
\* Option<NonNull<Node>>::None
NULL == 0
NodeIds == 1..MaxNodes
Values == 1..MaxVal
\* The content of a MaybeUninit slot that holds no value.
Uninit == 0
Slot == Values \cup {Uninit}
\* Option<T>: None is the empty sequence, Some(v) a sequence of one.
None == <<>>
Some(v) == <<v>>

\* What a read of memory outside a node's values array may produce.
Garbage == Slot

\* allocate_nonnull: the addresses Box::new may return, any address that is
\* not in use: one never used before, or one that was freed (to which dangling
\* pointers may still point). The operators that allocate take the address
\* as their argument n; the actions choose it.
allocate_nonnull(h) == NodeIds \ DOMAIN h

\* The choices of a call for the address of its new node: NULL when it
\* allocates none.
NewNode(allocates, h) == IF allocates THEN allocate_nonnull(h) ELSE {NULL}

\* ------------------------------------------------------------------- Node
Node_new(prev, next) ==
    [prev |-> prev, next |-> next,
     values |-> [i \in 0..(COUNT - 1) |-> Uninit], size |-> 0]

is_full(node) == node.size = COUNT

\* Node::push_back (unchecked: the caller guarantees size < COUNT)
Node_push_back(node, element) ==
    [node EXCEPT !.values = [i \in 0..(COUNT - 1) |->
                                IF i = node.size THEN element ELSE node.values[i]],
                 !.size = node.size + 1]

\* Node::push_front without the copy that moves the values up.
Node_push_front_no_copy(node, element) ==
    [node EXCEPT !.values = [i \in 0..(COUNT - 1) |->
                                IF i = 0 THEN element ELSE node.values[i]],
                 !.size = node.size + 1]

\* Node::push_front: ptr::copy of values[0..size) to values[1..size+1) when
\* COUNT > 1, then values[0] = element
Node_push_front(node, element) ==
    [node EXCEPT !.values = [i \in 0..(COUNT - 1) |->
                                IF i = 0 THEN element
                                ELSE IF COUNT > 1 /\ i <= node.size THEN node.values[i - 1]
                                ELSE node.values[i]],
                 !.size = node.size + 1]

\* Node::insert without the loop that copies the values up.
Node_insert_no_shift(node, element, index) ==
    [node EXCEPT !.values = [i \in 0..(COUNT - 1) |->
                                IF i = index THEN element ELSE node.values[i]],
                 !.size = node.size + 1]

\* Node::insert: for i in (index..size).rev() values[i+1] = replace(values[i], uninit);
\* values[index] = element
Node_insert(node, element, index) ==
    [node EXCEPT !.values = [i \in 0..(COUNT - 1) |->
                                IF i = index THEN element
                                ELSE IF i > index /\ i <= node.size THEN node.values[i - 1]
                                ELSE node.values[i]],
                 !.size = node.size + 1]

\* ------------------------------------------------------- the list as a value
\* The fields of the list together with the heap they point into.
List == [heap |-> heap, first |-> first, last |-> last, len |-> len]

\* Box::from_raw(n) dropped: the node at n is deallocated.
Dealloc(h, n) == [m \in (DOMAIN h) \ {n} |-> h[m]]

\* insert_node_start
insert_node_start(L, n) ==
    LET h1 == L.heap @@ (n :> Node_new(NULL, L.first))
        h2 == IF L.first # NULL THEN [h1 EXCEPT ![L.first].prev = n] ELSE h1
    IN [L EXCEPT !.heap = h2, !.first = n,
                 !.last = IF L.last = NULL THEN n ELSE L.last]

\* insert_node_end
insert_node_end(L, n) ==
    LET h1 == L.heap @@ (n :> Node_new(L.last, NULL))
        h2 == IF L.last # NULL THEN [h1 EXCEPT ![L.last].next = n] ELSE h1
    IN [L EXCEPT !.heap = h2, !.last = n,
                 !.first = IF L.first = NULL THEN n ELSE L.first]

\* push_front that allocates a node only when the list has none, without the
\* is_full arm.
push_front_allocates_first_none(L) == L.first = NULL

\* push_back that allocates a node only when the list has none, without the
\* is_full arm.
push_back_allocates_last_none(L) == L.last = NULL

\* Whether push_front / push_back take an arm that allocates a node.
push_front_allocates(L) == L.first = NULL \/ is_full(L.heap[L.first])
push_back_allocates(L) == L.last = NULL \/ is_full(L.heap[L.last])

\* PackedLinkedList::push_front
list_push_front(L, element, n) ==
    LET L1 == IF push_front_allocates(L) THEN insert_node_start(L, n) ELSE L
    IN [L1 EXCEPT !.heap[L1.first] = Node_push_front(L1.heap[L1.first], element),
                  !.len = L.len + 1]

\* PackedLinkedList::push_back
list_push_back(L, element, n) ==
    LET L1 == IF push_back_allocates(L) THEN insert_node_end(L, n) ELSE L
    IN [L1 EXCEPT !.heap[L1.last] = Node_push_back(L1.heap[L1.last], element),
                  !.len = L.len + 1]

\* pop_front that frees the emptied first node without `next.prev = None`.
pop_front_nodes_prev_kept(L) ==
    LET node == L.heap[L.first]
    IN IF node.size = 1
       THEN [L EXCEPT !.heap = Dealloc(L.heap, L.first), !.first = node.next,
                      !.last = IF node.next = NULL THEN NULL ELSE L.last]
       ELSE [L EXCEPT !.heap[L.first] =
                [node EXCEPT !.values = [i \in 0..(COUNT - 1) |->
                                            IF i < node.size - 1 THEN node.values[i + 1]
                                            ELSE Uninit],
                             !.size = node.size - 1]]

\* pop_front on a list whose first is Some, up to (not including) self.len -= 1;
\* the box of the emptied node is dropped after `next.prev = None`
pop_front_nodes(L) ==
    LET node == L.heap[L.first]
    IN IF node.size = 1
       THEN LET h1 == IF node.next # NULL
                      THEN [L.heap EXCEPT ![node.next].prev = NULL] ELSE L.heap
                h2 == Dealloc(h1, L.first)
            IN [L EXCEPT !.heap = h2, !.first = node.next,
                         !.last = IF node.next = NULL THEN NULL ELSE L.last]
       ELSE [L EXCEPT !.heap[L.first] =
                [node EXCEPT !.values = [i \in 0..(COUNT - 1) |->
                                            IF i < node.size - 1 THEN node.values[i + 1]
                                            ELSE Uninit],
                             !.size = node.size - 1]]

\* pop_back on a list whose last is Some, up to (not including) self.len -= 1;
\* the box of the emptied node is dropped after `previous.next = None`
pop_back_nodes(L) ==
    LET node == L.heap[L.last]
    IN IF node.size = 1
       THEN LET h1 == IF node.prev # NULL
                      THEN [L.heap EXCEPT ![node.prev].next = NULL] ELSE L.heap
                h2 == Dealloc(h1, L.last)
            IN [L EXCEPT !.heap = h2, !.last = node.prev,
                         !.first = IF node.prev = NULL THEN NULL ELSE L.first]
       ELSE [L EXCEPT !.heap[L.last] =
                [node EXCEPT !.values[node.size - 1] = Uninit,
                             !.size = node.size - 1]]

\* The pointers pop_front / pop_back dereference are allocated.
pop_front_safe(L) ==
    /\ L.first \in DOMAIN L.heap
    /\ \/ L.heap[L.first].size # 1
       \/ L.heap[L.first].next = NULL
       \/ L.heap[L.first].next \in DOMAIN L.heap

pop_back_safe(L) ==
    /\ L.last \in DOMAIN L.heap
    /\ \/ L.heap[L.last].size # 1
       \/ L.heap[L.last].prev = NULL
       \/ L.heap[L.last].prev \in DOMAIN L.heap

\* ------------------------------------------------------------- traversal
\* iter::Iter::new
Iter_new(L) == [node |-> L.first, index |-> 0]

\* One call of Iter::next on the iterator it = [node, index]: the item (an
\* Option) and the iterator afterwards.
Iter_next(L, it) ==
    IF it.node = NULL THEN [item |-> None, it |-> it]
    ELSE LET node == L.heap[it.node]
         IN IF node.size > it.index
            THEN [item |-> Some(node.values[it.index]),
                  it |-> [it EXCEPT !.index = it.index + 1]]
            ELSE IF node.next = NULL THEN [item |-> None, it |-> it]
            ELSE [item |-> Some(L.heap[node.next].values[0]),
                  it |-> [node |-> node.next, index |-> 1]]

\* Whether Iter::next on `it` only touches allocated nodes.
Iter_next_safe(L, it) ==
    \/ it.node = NULL
    \/ /\ it.node \in DOMAIN L.heap
       /\ \/ L.heap[it.node].size > it.index
          \/ L.heap[it.node].next = NULL
          \/ L.heap[it.node].next \in DOMAIN L.heap

\* More calls of next than the bounded heap has slots: a walk that has read
\* IterFuel items has been at one slot twice, so it goes round a cycle of
\* links and does not end.
IterFuel == MaxNodes * MaxCount + 1

\* The outcome of a walk that dereferenced memory that is not allocated
\* after it had read `items`.
WalkFault(items) == [items |-> items, end |-> "use_after_free"]

RECURSIVE IterCollect(_, _, _)
\* The loop over an Iter: the items it yields, and how the loop ends: "none"
\* at the first None, "use_after_free" when a call of next touches memory
\* that is not allocated, "never" when it has yielded `fuel` items and the
\* next call yields one more (items is then a prefix of what it yields). (The
\* one-element sets make TLC evaluate the arguments of the recursive call
\* once.)
IterCollect(L, it, fuel) ==
    IF ~Iter_next_safe(L, it) THEN WalkFault(<<>>)
    ELSE LET r == Iter_next(L, it)
         IN IF r.item = None THEN [items |-> <<>>, end |-> "none"]
            ELSE IF fuel = 0 THEN [items |-> <<>>, end |-> "never"]
            ELSE LET t == CHOOSE s \in {IterCollect(l, i, fuel - 1) :
                                          l \in {L}, i \in {r.it}} : TRUE
                 IN [items |-> r.item \o t.items, end |-> t.end]

\* list.iter() run to its end
IterOf(L) == CHOOSE s \in {IterCollect(l, Iter_new(l), IterFuel) : l \in {L}} : TRUE
\* The elements in forward order, as iter() yields them.
Traversal == IterOf(List).items

\* iter::IterMut::new
IterMut_new(L) == [node |-> L.first, index |-> 0]

\* One call of IterMut::next: the slot the returned &mut T points at (an
\* Option of [node, index]) and the iterator afterwards.
IterMut_next(L, it) ==
    IF it.node = NULL THEN [ref |-> None, it |-> it]
    ELSE LET node == L.heap[it.node]
         IN IF node.size > it.index
            THEN [ref |-> Some([node |-> it.node, index |-> it.index]),
                  it |-> [it EXCEPT !.index = it.index + 1]]
            ELSE IF node.next = NULL THEN [ref |-> None, it |-> it]
            ELSE [ref |-> Some([node |-> node.next, index |-> 0]),
                  it |-> [node |-> node.next, index |-> 1]]

\* Whether IterMut::next on `it` only touches allocated nodes.
IterMut_next_safe(L, it) ==
    \/ it.node = NULL
    \/ /\ it.node \in DOMAIN L.heap
       /\ \/ L.heap[it.node].size > it.index
          \/ L.heap[it.node].next = NULL
          \/ L.heap[it.node].next \in DOMAIN L.heap

RECURSIVE IterMutCollect(_, _, _)
\* The loop over an IterMut: the slots it yields references to, and how the
\* loop ends (as for Iter).
IterMutCollect(L, it, fuel) ==
    IF ~IterMut_next_safe(L, it) THEN WalkFault(<<>>)
    ELSE LET r == IterMut_next(L, it)
         IN IF r.ref = None THEN [items |-> <<>>, end |-> "none"]
            ELSE IF fuel = 0 THEN [items |-> <<>>, end |-> "never"]
            ELSE LET t == CHOOSE s \in {IterMutCollect(l, i, fuel - 1) :
                                          l \in {L}, i \in {r.it}} : TRUE
                 IN [items |-> r.ref \o t.items, end |-> t.end]

\* list.iter_mut() run to its end
IterMutOf(L) ==
    CHOOSE s \in {IterMutCollect(l, IterMut_new(l), IterFuel) : l \in {L}} : TRUE

\* The references list.iter_mut() yields, in order (the first IterFuel of
\* them when it never ends).
IterMutRefs(L) == IterMutOf(L).items

\* --------------------------------------------------------------- IntoIter
\* An IntoIter together with the memory it owns: [heap, node, index], node
\* NULL for None.
\* iter::IntoIter::new: the iterator takes the first node; the list is forgotten
IntoIter_new(L) == [heap |-> L.heap, node |-> L.first, index |-> 0]

\* Whether IntoIter::next only touches allocated nodes (a Box of memory that
\* is not allocated is freed a second time when it is dropped).
IntoIter_next_safe(S) ==
    \/ S.node = NULL
    \/ /\ S.node \in DOMAIN S.heap
       /\ \/ S.heap[S.node].size > S.index
          \/ S.heap[S.node].next = NULL
          \/ S.heap[S.node].next \in DOMAIN S.heap

\* Whether the call of IntoIter::next enters the next node and takes from its
\* slot 0 a value that is not there: the slot was moved out by an earlier call
\* (mem::replace with MaybeUninit::uninit()), which only a node that is its
\* own next, or one met a second time, can have. assume_init may then yield
\* any bits (the stale value or whatever the build left there): Garbage.
IntoIter_next_reads_uninit(S) ==
    /\ S.node \in DOMAIN S.heap
    /\ ~(S.heap[S.node].size > S.index)
    /\ S.heap[S.node].next \in DOMAIN S.heap
    /\ S.heap[S.heap[S.node].next].values[0] = Uninit

\* IntoIter::next that, on entering the next node, leaves the index at the
\* slot it has just taken instead of the slot after it.
IntoIter_next_index_kept(S, g) ==
    IF S.node = NULL THEN [item |-> None, it |-> S]
    ELSE LET node == S.heap[S.node]
         IN IF node.size > S.index
            THEN [item |-> Some(node.values[S.index]),
                  it |-> [S EXCEPT !.heap[S.node].values[S.index] = Uninit,
                                   !.index = S.index + 1]]
            ELSE IF node.next = NULL
            THEN [item |-> None,
                  it |-> [S EXCEPT !.heap = Dealloc(S.heap, S.node), !.node = NULL]]
            ELSE LET h1 == [S.heap EXCEPT ![node.next].prev = NULL,
                                          ![node.next].values[0] = Uninit]
                     v == S.heap[node.next].values[0]
                 IN [item |-> Some(IF v = Uninit THEN g ELSE v),
                     it |-> [heap |-> Dealloc(h1, S.node),
                             node |-> node.next, index |-> 0]]

\* One call of IntoIter::next: the item (an Option) and the iterator afterwards.
\* self.node.take() leaves None; a node that is not put back is dropped at the
\* end of the call, after the next node was entered, which deallocates it.
\* g is what the read of an uninitialised slot 0 of the next node yields.
IntoIter_next(S, g) ==
    IF S.node = NULL THEN [item |-> None, it |-> S]
    ELSE LET node == S.heap[S.node]
         IN IF node.size > S.index
            THEN [item |-> Some(node.values[S.index]),
                  it |-> [S EXCEPT !.heap[S.node].values[S.index] = Uninit,
                                   !.index = S.index + 1]]
            ELSE IF node.next = NULL
            THEN [item |-> None,
                  it |-> [S EXCEPT !.heap = Dealloc(S.heap, S.node), !.node = NULL]]
            ELSE LET h1 == [S.heap EXCEPT ![node.next].prev = NULL,
                                          ![node.next].values[0] = Uninit]
                     v == S.heap[node.next].values[0]
                 IN [item |-> Some(IF v = Uninit THEN g ELSE v),
                     it |-> [heap |-> Dealloc(h1, S.node),
                             node |-> node.next, index |-> 1]]

RECURSIVE IntoIterCollect(_, _)
\* The sequences of items an IntoIter may yield until its first None (or
\* until a call would touch memory that is not allocated), at most `fuel`
\* items each: one sequence, unless a call reads an uninitialised slot, which
\* gives one sequence for each value the read may yield.
IntoIterCollect(S, fuel) ==
    IF fuel = 0 \/ ~IntoIter_next_safe(S) THEN {<<>>}
    ELSE UNION {IF r.item = None THEN {<<>>}
                ELSE {r.item \o rest : rest \in IntoIterCollect(r.it, fuel - 1)}
                : r \in {IntoIter_next(S, g) :
                            g \in (IF IntoIter_next_reads_uninit(S)
                                   THEN Garbage ELSE {Uninit})}}

RECURSIVE IntoIterDrain(_, _)
\* `for _ in self {}` of IntoIter::drop: the iterator after the calls of next
\* up to and including the first that returns None; ok is FALSE when a call
\* would touch memory that is not allocated. The items are dropped unread
\* and the iterator afterwards does not depend on their values, so the read
\* of an uninitialised slot is given the value Uninit.
IntoIterDrain(S, fuel) ==
    IF fuel = 0 \/ ~IntoIter_next_safe(S) THEN [it |-> S, ok |-> FALSE]
    ELSE LET r == IntoIter_next(S, Uninit)
         IN IF r.item = None THEN [it |-> r.it, ok |-> TRUE]
            ELSE CHOOSE d \in {IntoIterDrain(i, fuel - 1) : i \in {r.it}} : TRUE

RECURSIVE from_iter_fold(_, _, _)
\* The loop of from_iter: push_back of every item of the sequence, in order;
\* addrs are the addresses Box::new returns, in the order of the allocations.
from_iter_fold(L, seq, addrs) ==
    IF seq = <<>> THEN L
    ELSE IF push_back_allocates(L)
    THEN from_iter_fold(list_push_back(L, Head(seq), Head(addrs)), Tail(seq), Tail(addrs))
    ELSE from_iter_fold(list_push_back(L, Head(seq), NULL), Tail(seq), addrs)

\* FromIterator::from_iter on a fresh heap
from_iter(seq, addrs) ==
    from_iter_fold([heap |-> <<>>, first |-> NULL, last |-> NULL, len |-> 0], seq, addrs)

RECURSIVE push_front_fold(_, _, _)
\* push_front of every item of the sequence, in order.
push_front_fold(L, seq, addrs) ==
    IF seq = <<>> THEN L
    ELSE IF push_front_allocates(L)
    THEN push_front_fold(list_push_front(L, Head(seq), Head(addrs)), Tail(seq), Tail(addrs))
    ELSE push_front_fold(list_push_front(L, Head(seq), NULL), Tail(seq), addrs)

\* The list after push_front of every item of seq on a new list.
push_front_all(seq, addrs) ==
    push_front_fold([heap |-> <<>>, first |-> NULL, last |-> NULL, len |-> 0], seq, addrs)

RECURSIVE Drop_walk(_, _, _)
\* The loop of Drop::drop from the pointer item: Box::from_raw of every node
\* and its drop, then on to its next. The heap afterwards; ok is FALSE when
\* the walk meets memory that is not allocated (freed before the call or by
\* the walk itself, when the next links form a cycle).
Drop_walk(L, item, fuel) ==
    IF item = NULL THEN [heap |-> L.heap, ok |-> TRUE]
    ELSE IF item \notin DOMAIN L.heap \/ fuel = 0 THEN [heap |-> L.heap, ok |-> FALSE]
    ELSE Drop_walk([L EXCEPT !.heap = Dealloc(L.heap, item)], L.heap[item].next, fuel - 1)

\* ------------------------------------------------------------------ cursor
NoCursor == [kind |-> "none", node |-> NULL, index |-> 0]

\* cursor_front / cursor_mut_front
Cursor_front(L) == [kind |-> "cursor_mut", node |-> L.first, index |-> 0]

\* cursor_back / cursor_mut_back: the last element of the last node, or 0
Cursor_back(L) ==
    [kind |-> "cursor_mut", node |-> L.last,
     index |-> IF L.last = NULL THEN 0 ELSE L.heap[L.last].size - 1]

Cursor_back_safe(L) == L.last = NULL \/ L.last \in DOMAIN L.heap

\* get of implement_cursor!
Cursor_get(L, c) ==
    IF c.node = NULL THEN None ELSE Some(L.heap[c.node].values[c.index])

Cursor_get_safe(L, c) ==
    \/ c.node = NULL
    \/ c.node \in DOMAIN L.heap /\ c.index \in 0..(COUNT - 1)

\* move_next that leaves a node one index later than the source does
\* (index == size where the source has index == size - 1).
Cursor_move_next_past_size(L, c) ==
    IF c.node = NULL
    THEN [c EXCEPT !.node = L.first, !.index = 0]
    ELSE LET node == L.heap[c.node]
         IN IF c.index = node.size
            THEN [c EXCEPT !.node = node.next, !.index = 0]
            ELSE [c EXCEPT !.index = c.index + 1]

\* move_next of implement_cursor!
Cursor_move_next(L, c) ==
    IF c.node = NULL
    THEN [c EXCEPT !.node = L.first, !.index = 0]
    ELSE LET node == L.heap[c.node]
         IN IF c.index = node.size - 1
            THEN [c EXCEPT !.node = node.next, !.index = 0]
            ELSE [c EXCEPT !.index = c.index + 1]

\* move_prev of implement_cursor!
Cursor_move_prev(L, c) ==
    IF c.node = NULL
    THEN [c EXCEPT !.node = L.last,
                   !.index = IF L.last = NULL THEN 0 ELSE L.heap[L.last].size - 1]
    ELSE IF c.index = 0
    THEN LET node == L.heap[c.node]
         IN [c EXCEPT !.node = node.prev,
                      !.index = IF node.prev = NULL THEN 0
                                ELSE L.heap[node.prev].size - 1]
    ELSE [c EXCEPT !.index = c.index - 1]

\* Whether move_next only reads allocated nodes.
move_next_safe(L, c) == c.node = NULL \/ c.node \in DOMAIN L.heap

\* Whether move_prev only reads allocated nodes: with index > 0 it reads
\* nothing of the node, it only decrements the index.
move_prev_safe(L, c) ==
    IF c.node = NULL THEN Cursor_back_safe(L)
    ELSE \/ c.index # 0
         \/ /\ c.node \in DOMAIN L.heap
            /\ \/ L.heap[c.node].prev = NULL
               \/ L.heap[c.node].prev \in DOMAIN L.heap

RECURSIVE BackCollect(_, _, _)
\* The loop `while let Some(x) = c.get() { ...; c.move_prev() }` from cursor c:
\* the elements get() returned, and how the walk ends: "ghost" when the cursor
\* reaches the ghost position, "use_after_free" when get or move_prev
\* dereferences memory that is not allocated (the element read before a
\* faulting move_prev is among the items), "never" when the walk has read
\* `fuel` elements: with IterFuel, more than there are positions, so that the
\* prev links form a cycle and the walk does not end (items is then a prefix
\* of what it reads).
BackCollect(L, c, fuel) ==
    IF c.node = NULL THEN [items |-> <<>>, end |-> "ghost"]
    ELSE IF ~Cursor_get_safe(L, c) THEN WalkFault(<<>>)
    ELSE IF fuel = 0 THEN [items |-> <<>>, end |-> "never"]
    ELSE IF ~move_prev_safe(L, c) THEN WalkFault(Cursor_get(L, c))
    ELSE LET r == CHOOSE s \in {BackCollect(l, p, fuel - 1) :
                                  l \in {L}, p \in {Cursor_move_prev(L, c)}} : TRUE
         IN [items |-> Cursor_get(L, c) \o r.items, end |-> r.end]

\* cursor_back, then get and move_prev until the ghost position
BackwardOf(L) ==
    IF Cursor_back_safe(L)
    THEN CHOOSE s \in {BackCollect(l, Cursor_back(l), IterFuel) : l \in {L}} : TRUE
    ELSE WalkFault(<<>>)
Backward == BackwardOf(List)

\* ------------------------------------------------- CursorMut::insert_after
\* allocate_new_node_after
allocate_new_node_after(L, c, n) ==
    LET h1 == L.heap @@ (n :> Node_new(c.node, NULL))
    IN IF c.node = NULL
       THEN LET h2 == IF L.first = NULL THEN h1
                      ELSE [h1 EXCEPT ![L.first].prev = n]
            IN [L EXCEPT !.heap = [h2 EXCEPT ![n].next = L.first],
                         !.last = IF L.first = NULL THEN n ELSE L.last,
                         !.first = n]
       ELSE [L EXCEPT !.heap = [h1 EXCEPT ![n].next = h1[c.node].next,
                                          ![c.node].next = n]]

\* let append = self.index == current.size - 1
insert_after_append(L, c) == c.index = L.heap[c.node].size - 1

\* need_allocate of the (true, true) case
insert_after_need_allocate(L, c) ==
    LET next == L.heap[c.node].next
    IN IF next = NULL THEN TRUE ELSE is_full(L.heap[next])

\* Whether insert_after calls allocate_nonnull.
insert_after_allocates(L, c) ==
    IF c.node = NULL THEN push_front_allocates(L)
    ELSE /\ is_full(L.heap[c.node])
         /\ insert_after_append(L, c) => insert_after_need_allocate(L, c)

\* (true, true) of insert_after
insert_after_append_full(L, c, element, n) ==
    IF insert_after_need_allocate(L, c)
    THEN LET L1 == allocate_new_node_after(L, c, n)
         IN [L1 EXCEPT !.heap[n] = Node_push_back(L1.heap[n], element)]
    ELSE LET next == L.heap[c.node].next
         IN [L EXCEPT !.heap[next] = Node_push_back(L.heap[next], element)]

\* The (false, true) case without `next.size = to_copy`: the new node keeps
\* the size 0 of Node::new.
insert_after_split_size_unset(L, c, element, g, n) ==
    LET L1 == allocate_new_node_after(L, c, n)
        current == L1.heap[c.node]
        to_copy == current.size - c.index
        src(i) == IF i < COUNT THEN current.values[i] ELSE g
    IN [L1 EXCEPT
          !.heap[n] = [L1.heap[n] EXCEPT
                         !.values = [j \in 0..(COUNT - 1) |->
                                        IF j < to_copy THEN src(c.index + 1 + j)
                                        ELSE L1.heap[n].values[j]]],
          !.heap[c.node] = [current EXCEPT
                         !.values = [i \in 0..(COUNT - 1) |->
                                        IF i <= c.index THEN current.values[i]
                                        ELSE IF i = c.index + 1 THEN element
                                        ELSE Uninit],
                         !.size = c.index + 2]]

\* (false, true) of insert_after: to_copy values are copied from
\* current.values[index + 1 ..] to the new node; a source index >= COUNT lies
\* outside the values array and reads as g
insert_after_split(L, c, element, g, n) ==
    LET L1 == allocate_new_node_after(L, c, n)
        current == L1.heap[c.node]
        to_copy == current.size - c.index
        src(i) == IF i < COUNT THEN current.values[i] ELSE g
    IN [L1 EXCEPT
          !.heap[n] = [L1.heap[n] EXCEPT
                         !.values = [j \in 0..(COUNT - 1) |->
                                        IF j < to_copy THEN src(c.index + 1 + j)
                                        ELSE L1.heap[n].values[j]],
                         !.size = to_copy],
          !.heap[c.node] = [current EXCEPT
                         !.values = [i \in 0..(COUNT - 1) |->
                                        IF i <= c.index THEN current.values[i]
                                        ELSE IF i = c.index + 1 THEN element
                                        ELSE Uninit],
                         !.size = c.index + 2]]

\* Whether the copy of the (false, true) case reads outside the values array.
insert_after_reads_outside(L, c) ==
    /\ c.node # NULL
    /\ ~insert_after_append(L, c)
    /\ is_full(L.heap[c.node])
    /\ c.index + 1 + (L.heap[c.node].size - c.index) > COUNT

\* insert_after on a node that inserts at index where the source says index + 1.
insert_after_node_at_index(L, c, element, g, n) ==
    LET current == L.heap[c.node]
        L1 == CASE insert_after_append(L, c) /\ ~is_full(current) ->
                     [L EXCEPT !.heap[c.node] = Node_push_back(current, element)]
                [] insert_after_append(L, c) /\ is_full(current) ->
                     insert_after_append_full(L, c, element, n)
                [] ~insert_after_append(L, c) /\ ~is_full(current) ->
                     [L EXCEPT !.heap[c.node] = Node_insert(current, element, c.index)]
                [] OTHER -> insert_after_split(L, c, element, g, n)
    IN [L1 EXCEPT !.len = L.len + 1]

\* insert_after on a node without `self.list.len += 1`.
insert_after_node_len_kept(L, c, element, g, n) ==
    LET current == L.heap[c.node]
    IN CASE insert_after_append(L, c) /\ ~is_full(current) ->
                [L EXCEPT !.heap[c.node] = Node_push_back(current, element)]
         [] insert_after_append(L, c) /\ is_full(current) ->
                insert_after_append_full(L, c, element, n)
         [] ~insert_after_append(L, c) /\ ~is_full(current) ->
                [L EXCEPT !.heap[c.node] = Node_insert(current, element, c.index + 1)]
         [] OTHER -> insert_after_split(L, c, element, g, n)

\* CursorMut::insert_after on a cursor that points at a node
insert_after_node(L, c, element, g, n) ==
    LET current == L.heap[c.node]
        L1 == CASE insert_after_append(L, c) /\ ~is_full(current) ->
                     [L EXCEPT !.heap[c.node] = Node_push_back(current, element)]
                [] insert_after_append(L, c) /\ is_full(current) ->
                     insert_after_append_full(L, c, element, n)
                [] ~insert_after_append(L, c) /\ ~is_full(current) ->
                     [L EXCEPT !.heap[c.node] = Node_insert(current, element, c.index + 1)]
                [] OTHER -> insert_after_split(L, c, element, g, n)
    IN [L1 EXCEPT !.len = L.len + 1]

\* insert_after with `self.list.len += 1` after the match, so that the ghost
\* arm counts the element twice (push_front counts it already).
list_insert_after_ghost_len_twice(L, c, element, g, n) ==
    IF c.node = NULL
    THEN [list_push_front(L, element, n) EXCEPT !.len = L.len + 2]
    ELSE insert_after_node(L, c, element, g, n)

\* CursorMut::insert_after
list_insert_after(L, c, element, g, n) ==
    IF c.node = NULL THEN list_push_front(L, element, n)
    ELSE insert_after_node(L, c, element, g, n)

\* The pointers insert_after dereferences are allocated.
insert_after_safe(L, c) ==
    IF c.node = NULL THEN L.first = NULL \/ L.first \in DOMAIN L.heap
    ELSE /\ c.node \in DOMAIN L.heap
         /\ \/ ~(insert_after_append(L, c) /\ is_full(L.heap[c.node]))
            \/ L.heap[c.node].next = NULL
            \/ L.heap[c.node].next \in DOMAIN L.heap

\* ------------------------------------------------------ plain LinkedList<T>
\* (src/src/linked_list/mod.rs) A list value is [heap, start, end]: the nodes
\* allocated for it, each [value, next, prev], and the two end pointers.

\* LinkedList::new
LinkedList_new == [heap |-> <<>>, start |-> NULL, end |-> NULL]

\* LinkedList::push_front
LinkedList_push_front(L, element, new_node) ==
    LET h1 == L.heap @@ (new_node :> [value |-> element, next |-> L.start, prev |-> NULL])
    IN IF L.start # NULL
       THEN [L EXCEPT !.heap = [h1 EXCEPT ![L.start].prev = new_node],
                      !.start = new_node]
       ELSE [L EXCEPT !.heap = h1, !.end = new_node, !.start = new_node]

\* LinkedList::push_back
LinkedList_push_back(L, element, new_node) ==
    LET h1 == L.heap @@ (new_node :> [value |-> element, next |-> NULL, prev |-> L.end])
    IN IF L.end # NULL
       THEN [L EXCEPT !.heap = [h1 EXCEPT ![L.end].next = new_node],
                      !.end = new_node]
       ELSE [L EXCEPT !.heap = h1, !.start = new_node, !.end = new_node]

\* LinkedList::pop_front on a list whose start is Some: the list afterwards
\* (the returned value is that of the start node). The box is dropped at the
\* end of the closure, after `next.prev = None`.
LinkedList_pop_front(L) ==
    LET boxed == L.heap[L.start]
    IN IF boxed.next # NULL
       THEN [L EXCEPT !.heap = Dealloc([L.heap EXCEPT ![boxed.next].prev = NULL], L.start),
                      !.start = boxed.next]
       ELSE [L EXCEPT !.heap = Dealloc(L.heap, L.start), !.start = NULL, !.end = NULL]

\* LinkedList::pop_back on a list whose end is Some
LinkedList_pop_back(L) ==
    LET boxed == L.heap[L.end]
    IN IF boxed.prev # NULL
       THEN [L EXCEPT !.heap = Dealloc([L.heap EXCEPT ![boxed.prev].next = NULL], L.end),
                      !.end = boxed.prev]
       ELSE [L EXCEPT !.heap = Dealloc(L.heap, L.end), !.end = NULL, !.start = NULL]

\* The pointer push_front / push_back dereferences is allocated: old_start
\* (old_end) is written to after allocate_nonnull has returned new_node, so a
\* dangling start (end) whose address the new node got is allocated again.
LinkedList_push_front_safe(L, new_node) ==
    L.start = NULL \/ L.start \in DOMAIN L.heap \cup {new_node}
LinkedList_push_back_safe(L, new_node) ==
    L.end = NULL \/ L.end \in DOMAIN L.heap \cup {new_node}

\* The pointers pop_front / pop_back dereference are allocated: the node
\* itself and the neighbour it writes to, while the node is still allocated.
LinkedList_pop_front_safe(L) ==
    /\ L.start \in DOMAIN L.heap
    /\ \/ L.heap[L.start].next = NULL
       \/ L.heap[L.start].next \in DOMAIN L.heap
LinkedList_pop_back_safe(L) ==
    /\ L.end \in DOMAIN L.heap
    /\ \/ L.heap[L.end].prev = NULL
       \/ L.heap[L.end].prev \in DOMAIN L.heap

RECURSIVE LinkedList_walk(_, _, _)
\* The loop of get / get_node / get_mut_node from the pointer `node` with
\* `index` steps left: the node it stops at (NULL: result None), and whether
\* every node it dereferenced was allocated.
LinkedList_walk(L, node, index) ==
    IF node = NULL THEN [node |-> NULL, ok |-> TRUE]
    ELSE IF node \notin DOMAIN L.heap THEN [node |-> NULL, ok |-> FALSE]
    ELSE IF index = 0 THEN [node |-> node, ok |-> TRUE]
    ELSE LinkedList_walk(L, L.heap[node].next, index - 1)

\* LinkedList::get
LinkedList_get(L, index) ==
    LET w == LinkedList_walk(L, L.start, index)
    IN IF w.node = NULL THEN None ELSE Some(L.heap[w.node].value)

LinkedList_get_safe(L, index) == LinkedList_walk(L, L.start, index).ok

\* LinkedList::get_mut_node: the node (NULL: None)
LinkedList_get_mut_node(L, index) == LinkedList_walk(L, L.start, index).node

\* The pointer get_head / get_tail dereferences is allocated.
LinkedList_get_head_safe(L) == L.start = NULL \/ L.start \in DOMAIN L.heap
LinkedList_get_tail_safe(L) == L.end = NULL \/ L.end \in DOMAIN L.heap

\* LinkedList::get_head / get_tail
LinkedList_get_head(L) == IF L.start = NULL THEN None ELSE Some(L.heap[L.start].value)
LinkedList_get_tail(L) == IF L.end = NULL THEN None ELSE Some(L.heap[L.end].value)

\* Node::push_after on the node at self
Node_push_after(L, self, element, new_node) ==
    LET next == L.heap[self].next
        h1 == L.heap @@ (new_node :> [value |-> element, next |-> next, prev |-> self])
        h2 == IF next # NULL THEN [h1 EXCEPT ![next].prev = new_node] ELSE h1
    IN [L EXCEPT !.heap = [h2 EXCEPT ![self].next = new_node]]

\* Node::push_before on the node at self
Node_push_before(L, self, element, new_node) ==
    LET prev == L.heap[self].prev
        h1 == L.heap @@ (new_node :> [value |-> element, next |-> self, prev |-> prev])
        h2 == IF prev # NULL THEN [h1 EXCEPT ![prev].next = new_node] ELSE h1
    IN [L EXCEPT !.heap = [h2 EXCEPT ![self].prev = new_node]]

\* The neighbour Node::push_after / push_before writes to is allocated: it is
\* written to after allocate_nonnull has returned new_node.
Node_push_after_safe(L, self, new_node) ==
    L.heap[self].next = NULL \/ L.heap[self].next \in DOMAIN L.heap \cup {new_node}
Node_push_before_safe(L, self, new_node) ==
    L.heap[self].prev = NULL \/ L.heap[self].prev \in DOMAIN L.heap \cup {new_node}

RECURSIVE LinkedList_iter_from(_, _, _)
\* Iter::next called until None from the node `node`: the values it yields,
\* in order, and how the loop ends: "none" at the first None,
\* "use_after_free" at a node that is not allocated, "never" when it has
\* yielded `fuel` values and stands on one more node (with MaxNodes as fuel
\* the next links form a cycle; items is then a prefix of what it yields).
LinkedList_iter_from(L, node, fuel) ==
    IF node = NULL THEN [items |-> <<>>, end |-> "none"]
    ELSE IF node \notin DOMAIN L.heap THEN WalkFault(<<>>)
    ELSE IF fuel = 0 THEN [items |-> <<>>, end |-> "never"]
    ELSE LET t == LinkedList_iter_from(L, L.heap[node].next, fuel - 1)
         IN [items |-> <<L.heap[node].value>> \o t.items, end |-> t.end]

\* list.iter() run to its end
LinkedList_iter(L) == LinkedList_iter_from(L, L.start, MaxNodes)

RECURSIVE LinkedList_chain_from(_, _, _)
\* The node ids Iter visits from `node`.
LinkedList_chain_from(L, node, fuel) ==
    IF node = NULL \/ fuel = 0 THEN <<>>
    ELSE IF node \notin DOMAIN L.heap THEN <<node>>
    ELSE <<node>> \o LinkedList_chain_from(L, L.heap[node].next, fuel - 1)

LinkedList_chain(L) == LinkedList_chain_from(L, L.start, MaxNodes + 1)

\* list.iter() only visits allocated nodes and ends.
LinkedList_iter_safe(L) == LinkedList_iter(L).end = "none"

RECURSIVE LinkedList_drop(_, _, _)
\* The loop of Drop::drop of the LinkedList from the pointer item: it reads
\* the next link of the node and frees the node. The heap afterwards; ok is
\* FALSE when the walk meets memory that is not allocated (freed before the
\* call or by the walk itself, when the next links form a cycle).
LinkedList_drop(L, item, fuel) ==
    IF item = NULL THEN [heap |-> L.heap, ok |-> TRUE]
    ELSE IF item \notin DOMAIN L.heap \/ fuel = 0 THEN [heap |-> L.heap, ok |-> FALSE]
    ELSE LinkedList_drop([L EXCEPT !.heap = Dealloc(L.heap, item)],
                         L.heap[item].next, fuel - 1)

\* One call of IntoIter::next of the plain list: the item (an Option) and the
\* iterator afterwards. The iterator is [heap, node], the memory it owns and
\* the box it holds (NULL: None). The node is freed at the end of the arm; the
\* prev of the node the iterator moves to is left as it is.
LinkedList_IntoIter_next(S) ==
    IF S.node = NULL THEN [item |-> None, it |-> S]
    ELSE [item |-> Some(S.heap[S.node].value),
          it |-> [heap |-> Dealloc(S.heap, S.node), node |-> S.heap[S.node].next]]

RECURSIVE LinkedList_IntoIter_drop(_, _)
\* `while let Some(_) = self.next() {}` of the drop of the IntoIter: the
\* iterator after the calls of next up to and including the first that
\* returns None; ok is FALSE when a call takes a box of memory that is not
\* allocated (next reads its next and its value and frees it).
LinkedList_IntoIter_drop(S, fuel) ==
    IF fuel = 0 \/ (S.node # NULL /\ S.node \notin DOMAIN S.heap)
    THEN [it |-> S, ok |-> FALSE]
    ELSE LET r == LinkedList_IntoIter_next(S)
         IN IF r.item = None THEN [it |-> r.it, ok |-> TRUE]
            ELSE LinkedList_IntoIter_drop(r.it, fuel - 1)

RECURSIVE LinkedList_navigate(_, _, _)
\* The pointers a program reaches from the set `from` in at most `steps`
\* calls of Node::next_mut / previous_mut: each call reads the link of an
\* allocated node and returns a reference to what it points at.
LinkedList_navigate(L, from, steps) ==
    IF steps = 0 THEN from
    ELSE LinkedList_navigate(L,
            from \cup (({L.heap[n].next : n \in from \cap DOMAIN L.heap}
                        \cup {L.heap[n].prev : n \in from \cap DOMAIN L.heap}) \ {NULL}),
            steps - 1)

\* The nodes a program can hold a &mut Node of: front_node_mut(),
\* back_node_mut() and the navigation from them.
LinkedList_nodes_mut(L) == LinkedList_navigate(L, {L.start, L.end} \ {NULL}, MaxNodes)


\* ------------------------------------------------------------------ actions
\* `at` is the number of the iterator item a call is about (0: none).
NoOp == [name |-> "new", arg |-> Uninit, ret |-> None, at |-> 0]
CalledAt(name, arg, ret, k) == [name |-> name, arg |-> arg, ret |-> ret, at |-> k]
Called(name, arg, ret) == CalledAt(name, arg, ret, 0)

\* PackedLinkedList::new, for every COUNT explored
Init ==
    /\ COUNT \in 1..MaxCount
    /\ heap = <<>>
    /\ first = NULL
    /\ last = NULL
    /\ len = 0
    /\ cursor = NoCursor
    /\ op = NoOp
    /\ inserts = 0
    /\ fault = "none"
    /\ linked = LinkedList_new

\* The list's fields become those of L.
Store(L) ==
    /\ heap' = L.heap
    /\ first' = L.first
    /\ last' = L.last
    /\ len' = L.len

\* The list has not been moved into an IntoIter (or dropped with it).
ListOwned == cursor.kind \in {"none", "cursor_mut"}

\* The call dereferences a pointer to memory that is not allocated.
UseAfterFree(name, arg) ==
    /\ fault' = "use_after_free"
    /\ op' = Called(name, arg, None)
    /\ UNCHANGED <<linked, COUNT, heap, first, last, len, cursor, inserts>>

push_front(element) ==
    /\ fault = "none"
    /\ ListOwned
    /\ len < MaxLen
    /\ IF first # NULL /\ first \notin DOMAIN heap
       THEN UseAfterFree("push_front", element)
       ELSE \E n \in NewNode(push_front_allocates(List), heap) :
            /\ Store(list_push_front(List, element, n))
            /\ cursor' = NoCursor
            /\ op' = Called("push_front", element, None)
            /\ UNCHANGED <<linked, COUNT, inserts, fault>>

push_back(element) ==
    /\ fault = "none"
    /\ ListOwned
    /\ len < MaxLen
    /\ IF last # NULL /\ last \notin DOMAIN heap
       THEN UseAfterFree("push_back", element)
       ELSE \E n \in NewNode(push_back_allocates(List), heap) :
            /\ Store(list_push_back(List, element, n))
            /\ cursor' = NoCursor
            /\ op' = Called("push_back", element, None)
            /\ UNCHANGED <<linked, COUNT, inserts, fault>>

\* self.len -= 1; Some(item). On a len of 0 a debug build panics ("attempt to
\* subtract with overflow") and a release build wraps to usize::MAX, which is
\* written -1 here (its residue mod 2^64: adding 1 gives 0 again).
pop_finish(L, name, item) ==
    IF L.len # 0
    THEN /\ Store([L EXCEPT !.len = L.len - 1])
         /\ op' = Called(name, Uninit, Some(item))
         /\ UNCHANGED fault
    ELSE \E build \in {"debug", "release"} :
            IF build = "debug"
            THEN /\ Store(L)
                 /\ op' = Called(name, Uninit, None)
                 /\ fault' = "panic_overflow"
            ELSE /\ Store([L EXCEPT !.len = -1])
                 /\ op' = Called(name, Uninit, Some(item))
                 /\ UNCHANGED fault

pop_front ==
    /\ fault = "none"
    /\ ListOwned
    /\ IF first = NULL
       THEN /\ op' = Called("pop_front", Uninit, None)
            /\ cursor' = NoCursor
            /\ UNCHANGED <<linked, COUNT, heap, first, last, len, inserts, fault>>
       ELSE IF ~pop_front_safe(List)
       THEN UseAfterFree("pop_front", Uninit)
       ELSE /\ pop_finish(pop_front_nodes(List), "pop_front", heap[first].values[0])
            /\ cursor' = NoCursor
            /\ UNCHANGED <<linked, COUNT, inserts>>

pop_back ==
    /\ fault = "none"
    /\ ListOwned
    /\ IF last = NULL
       THEN /\ op' = Called("pop_back", Uninit, None)
            /\ cursor' = NoCursor
            /\ UNCHANGED <<linked, COUNT, heap, first, last, len, inserts, fault>>
       ELSE IF ~pop_back_safe(List)
       THEN UseAfterFree("pop_back", Uninit)
       ELSE /\ pop_finish(pop_back_nodes(List), "pop_back",
                          heap[last].values[heap[last].size - 1])
            /\ cursor' = NoCursor
            /\ UNCHANGED <<linked, COUNT, inserts>>

cursor_mut_front ==
    /\ fault = "none"
    /\ ListOwned
    /\ cursor' = Cursor_front(List)
    /\ op' = Called("cursor_mut_front", Uninit, None)
    /\ UNCHANGED <<linked, COUNT, heap, first, last, len, inserts, fault>>

cursor_mut_back ==
    /\ fault = "none"
    /\ ListOwned
    /\ IF ~Cursor_back_safe(List)
       THEN UseAfterFree("cursor_mut_back", Uninit)
       ELSE /\ cursor' = Cursor_back(List)
            /\ op' = Called("cursor_mut_back", Uninit, None)
            /\ UNCHANGED <<linked, COUNT, heap, first, last, len, inserts, fault>>

move_next ==
    /\ fault = "none"
    /\ cursor.kind = "cursor_mut"
    /\ IF ~move_next_safe(List, cursor)
       THEN UseAfterFree("move_next", Uninit)
       ELSE /\ cursor' = Cursor_move_next(List, cursor)
            /\ op' = Called("move_next", Uninit, None)
            /\ UNCHANGED <<linked, COUNT, heap, first, last, len, inserts, fault>>

move_prev ==
    /\ fault = "none"
    /\ cursor.kind = "cursor_mut"
    /\ IF ~move_prev_safe(List, cursor)
       THEN UseAfterFree("move_prev", Uninit)
       ELSE /\ cursor' = Cursor_move_prev(List, cursor)
            /\ op' = Called("move_prev", Uninit, None)
            /\ UNCHANGED <<linked, COUNT, heap, first, last, len, inserts, fault>>

\* cursor.insert_after(element), enabled while fewer than `bound` calls of it
\* were made
insert_after_within(bound, element) ==
    /\ fault = "none"
    /\ cursor.kind = "cursor_mut"
    /\ inserts < bound
    /\ len < MaxLen
    /\ IF ~insert_after_safe(List, cursor)
       THEN UseAfterFree("insert_after", element)
       ELSE /\ \E n \in NewNode(insert_after_allocates(List, cursor), heap) :
               \E g \in (IF insert_after_reads_outside(List, cursor)
                         THEN Garbage ELSE {Uninit}) :
                  Store(list_insert_after(List, cursor, element, g, n))
            /\ op' = Called("insert_after", element, None)
            /\ inserts' = inserts + 1
            /\ UNCHANGED <<linked, COUNT, cursor, fault>>

insert_after(element) == insert_after_within(MaxInserts, element)

\* CursorMut::insert_before: the body is empty, the element is dropped.
insert_before(element) ==
    /\ fault = "none"
    /\ cursor.kind = "cursor_mut"
    /\ op' = Called("insert_before", element, None)
    /\ UNCHANGED <<linked, COUNT, heap, first, last, len, cursor, inserts, fault>>

\* if let Some(r) = cursor.get_mut() { *r = element }: the write goes to the
\* slot values[index] of the cursor's node; at the ghost position get_mut
\* returns None and nothing is written. ret is what get_mut returned: the slot
\* as it was.
get_mut_write(element) ==
    /\ fault = "none"
    /\ cursor.kind = "cursor_mut"
    /\ IF ~Cursor_get_safe(List, cursor)
       THEN UseAfterFree("get_mut", element)
       ELSE /\ heap' = IF cursor.node = NULL THEN heap
                       ELSE [heap EXCEPT ![cursor.node].values[cursor.index] = element]
            /\ op' = Called("get_mut", element, Cursor_get(List, cursor))
            /\ UNCHANGED <<linked, COUNT, first, last, len, cursor, inserts, fault>>

\* The CursorMut goes out of scope: its borrow of the list ends.
cursor_drop ==
    /\ fault = "none"
    /\ cursor.kind = "cursor_mut"
    /\ cursor' = NoCursor
    /\ op' = Called("cursor_drop", Uninit, None)
    /\ UNCHANGED <<linked, COUNT, heap, first, last, len, inserts, fault>>

\* *list.iter_mut().nth(k - 1).unwrap() = element (the list is not borrowed
\* by a cursor): k calls of IterMut::next, then the write through the k-th
\* reference; walk is the outcome of the iterator run to its end. The call
\* faults when one of its k calls of next touches a node that is not
\* allocated; the calls after the k-th are never made.
iter_mut_write(walk, k, element) ==
    /\ fault = "none"
    /\ cursor.kind = "none"
    /\ IF k > Len(walk.items) /\ walk.end = "use_after_free"
       THEN UseAfterFree("iter_mut_write", element)
       ELSE /\ k <= Len(walk.items)
            /\ heap' = [heap EXCEPT ![walk.items[k].node].values[walk.items[k].index] = element]
            /\ cursor' = NoCursor
            /\ op' = CalledAt("iter_mut_write", element, None, k)
            /\ UNCHANGED <<linked, COUNT, first, last, len, inserts, fault>>

\* drop(list): Drop::drop walks from first along next and frees every node it
\* meets; nothing of the list is left (cursor.kind becomes "dropped"), the
\* nodes the walk did not meet stay allocated for ever.
list_drop ==
    /\ fault = "none"
    /\ cursor.kind = "none"
    /\ LET d == Drop_walk(List, first, MaxNodes + 1)
       IN IF ~d.ok
          THEN UseAfterFree("drop", Uninit)
          ELSE /\ heap' = d.heap
               /\ first' = NULL /\ last' = NULL /\ len' = 0
               /\ cursor' = [kind |-> "dropped", node |-> NULL, index |-> 0]
               /\ op' = Called("drop", Uninit, None)
               /\ UNCHANGED <<linked, COUNT, inserts, fault>>

\* The IntoIter of the model: the variable cursor holds its node and index,
\* heap the memory it owns.
IntoIterState == [heap |-> heap, node |-> cursor.node, index |-> cursor.index]

\* list.into_iter(): the list is moved into the iterator and forgotten
into_iter ==
    /\ fault = "none"
    /\ cursor.kind = "none"
    /\ cursor' = [kind |-> "into_iter", node |-> IntoIter_new(List).node,
                  index |-> IntoIter_new(List).index]
    /\ first' = NULL /\ last' = NULL /\ len' = 0
    /\ op' = Called("into_iter", Uninit, None)
    /\ UNCHANGED <<linked, COUNT, heap, inserts, fault>>

\* IntoIter::next; op.at counts the calls of next on this iterator
into_iter_next ==
    /\ fault = "none"
    /\ cursor.kind = "into_iter"
    /\ op.at <= MaxLen + MaxInserts
    /\ IF ~IntoIter_next_safe(IntoIterState)
       THEN /\ fault' = "use_after_free"
            /\ op' = CalledAt("into_iter_next", Uninit, None, op.at + 1)
            /\ UNCHANGED <<linked, COUNT, heap, first, last, len, cursor, inserts>>
       ELSE \E g \in (IF IntoIter_next_reads_uninit(IntoIterState)
                      THEN Garbage ELSE {Uninit}) :
            LET r == IntoIter_next(IntoIterState, g)
            IN /\ heap' = r.it.heap
               /\ cursor' = [cursor EXCEPT !.node = r.it.node, !.index = r.it.index]
               /\ op' = CalledAt("into_iter_next", Uninit, r.item, op.at + 1)
               /\ UNCHANGED <<linked, COUNT, first, last, len, inserts, fault>>

\* IntoIter::drop: drains the iterator; nothing of list or iterator is left
into_iter_drop ==
    /\ fault = "none"
    /\ cursor.kind = "into_iter"
    /\ LET d == IntoIterDrain(IntoIterState, IterFuel)
       IN /\ heap' = d.it.heap
          /\ cursor' = [kind |-> "dropped", node |-> d.it.node, index |-> d.it.index]
          /\ fault' = IF d.ok THEN "none" ELSE "use_after_free"
          /\ op' = CalledAt("into_iter_drop", Uninit, None, op.at)
          /\ UNCHANGED <<linked, COUNT, first, last, len, inserts>>

\* ------------------------------------------- actions of the plain LinkedList
\* The fields of the PackedLinkedList, which these calls do not touch.
PackedVars == <<COUNT, heap, first, last, len, cursor>>

\* The plain list is run alone, so the record cursor is free to hold its
\* IntoIter: cursor.kind is "none" while the program holds the list (it was
\* not dropped and no IntoIter has taken it), "linked_into_iter" while it
\* holds the IntoIter, whose box is cursor.node and whose memory linked.heap.

\* A call on the plain list that dereferences a node that is not allocated.
LinkedUseAfterFree(name, arg) ==
    /\ fault' = "use_after_free"
    /\ op' = Called(name, arg, None)
    /\ UNCHANGED <<linked, inserts, PackedVars>>

linked_push_front(element) ==
    /\ fault = "none"
    /\ cursor.kind = "none"
    /\ \E new_node \in allocate_nonnull(linked.heap) :
       IF ~LinkedList_push_front_safe(linked, new_node)
       THEN LinkedUseAfterFree("LinkedList::push_front", element)
       ELSE /\ linked' = LinkedList_push_front(linked, element, new_node)
            /\ op' = Called("LinkedList::push_front", element, None)
            /\ UNCHANGED <<fault, inserts, PackedVars>>

linked_push_back(element) ==
    /\ fault = "none"
    /\ cursor.kind = "none"
    /\ \E new_node \in allocate_nonnull(linked.heap) :
       IF ~LinkedList_push_back_safe(linked, new_node)
       THEN LinkedUseAfterFree("LinkedList::push_back", element)
       ELSE /\ linked' = LinkedList_push_back(linked, element, new_node)
            /\ op' = Called("LinkedList::push_back", element, None)
            /\ UNCHANGED <<fault, inserts, PackedVars>>

linked_pop_front ==
    /\ fault = "none"
    /\ cursor.kind = "none"
    /\ IF linked.start = NULL
       THEN /\ op' = Called("LinkedList::pop_front", Uninit, None)
            /\ UNCHANGED <<linked, fault, inserts, PackedVars>>
       ELSE IF ~LinkedList_pop_front_safe(linked)
       THEN LinkedUseAfterFree("LinkedList::pop_front", Uninit)
       ELSE /\ linked' = LinkedList_pop_front(linked)
            /\ op' = Called("LinkedList::pop_front", Uninit,
                            Some(linked.heap[linked.start].value))
            /\ UNCHANGED <<fault, inserts, PackedVars>>

linked_pop_back ==
    /\ fault = "none"
    /\ cursor.kind = "none"
    /\ IF linked.end = NULL
       THEN /\ op' = Called("LinkedList::pop_back", Uninit, None)
            /\ UNCHANGED <<linked, fault, inserts, PackedVars>>
       ELSE IF ~LinkedList_pop_back_safe(linked)
       THEN LinkedUseAfterFree("LinkedList::pop_back", Uninit)
       ELSE /\ linked' = LinkedList_pop_back(linked)
            /\ op' = Called("LinkedList::pop_back", Uninit,
                            Some(linked.heap[linked.end].value))
            /\ UNCHANGED <<fault, inserts, PackedVars>>

\* list.get(index)
linked_get(index) ==
    /\ fault = "none"
    /\ cursor.kind = "none"
    /\ IF ~LinkedList_get_safe(linked, index)
       THEN LinkedUseAfterFree("LinkedList::get", index)
       ELSE /\ op' = Called("LinkedList::get", index, LinkedList_get(linked, index))
            /\ UNCHANGED <<linked, fault, inserts, PackedVars>>

linked_get_head ==
    /\ fault = "none"
    /\ cursor.kind = "none"
    /\ IF ~LinkedList_get_head_safe(linked)
       THEN LinkedUseAfterFree("LinkedList::get_head", Uninit)
       ELSE /\ op' = Called("LinkedList::get_head", Uninit, LinkedList_get_head(linked))
            /\ UNCHANGED <<linked, fault, inserts, PackedVars>>

linked_get_tail ==
    /\ fault = "none"
    /\ cursor.kind = "none"
    /\ IF ~LinkedList_get_tail_safe(linked)
       THEN LinkedUseAfterFree("LinkedList::get_tail", Uninit)
       ELSE /\ op' = Called("LinkedList::get_tail", Uninit, LinkedList_get_tail(linked))
            /\ UNCHANGED <<linked, fault, inserts, PackedVars>>

\* list.get_mut_node(index).unwrap().push_after(element); `at` is index + 1
node_push_after(index, element) ==
    /\ fault = "none"
    /\ cursor.kind = "none"
    /\ inserts < MaxNodePushes
    /\ IF ~LinkedList_get_safe(linked, index)
       THEN LinkedUseAfterFree("Node::push_after", element)
       ELSE LET self == LinkedList_get_mut_node(linked, index)
            IN /\ self # NULL
               /\ \E new_node \in allocate_nonnull(linked.heap) :
                  IF ~Node_push_after_safe(linked, self, new_node)
                  THEN LinkedUseAfterFree("Node::push_after", element)
                  ELSE /\ linked' = Node_push_after(linked, self, element, new_node)
                       /\ op' = CalledAt("Node::push_after", element, None, index + 1)
                       /\ inserts' = inserts + 1
                       /\ UNCHANGED <<fault, PackedVars>>

\* list.get_mut_node(index).unwrap().push_before(element); `at` is index + 1
node_push_before(index, element) ==
    /\ fault = "none"
    /\ cursor.kind = "none"
    /\ inserts < MaxNodePushes
    /\ IF ~LinkedList_get_safe(linked, index)
       THEN LinkedUseAfterFree("Node::push_before", element)
       ELSE LET self == LinkedList_get_mut_node(linked, index)
            IN /\ self # NULL
               /\ \E new_node \in allocate_nonnull(linked.heap) :
                  IF ~Node_push_before_safe(linked, self, new_node)
                  THEN LinkedUseAfterFree("Node::push_before", element)
                  ELSE /\ linked' = Node_push_before(linked, self, element, new_node)
                       /\ op' = CalledAt("Node::push_before", element, None, index + 1)
                       /\ inserts' = inserts + 1
                       /\ UNCHANGED <<fault, PackedVars>>

\* `at` is 0 for a node that is at no index of the list.
\* A node reached by front_node_mut / back_node_mut and next_mut /
\* previous_mut that get_mut_node does not reach, then push_after(element)
node_push_after_navigated(self, element) ==
    /\ fault = "none"
    /\ cursor.kind = "none"
    /\ inserts < MaxNodePushes
    /\ self \in LinkedList_nodes_mut(linked)
    /\ \A i \in 1..Len(LinkedList_chain(linked)) : self # LinkedList_chain(linked)[i]
    /\ IF self \notin DOMAIN linked.heap
       THEN LinkedUseAfterFree("Node::push_after", element)
       ELSE \E new_node \in allocate_nonnull(linked.heap) :
            IF ~Node_push_after_safe(linked, self, new_node)
            THEN LinkedUseAfterFree("Node::push_after", element)
            ELSE /\ linked' = Node_push_after(linked, self, element, new_node)
                 /\ op' = Called("Node::push_after", element, None)
                 /\ inserts' = inserts + 1
                 /\ UNCHANGED <<fault, PackedVars>>

\* The same for push_before(element)
node_push_before_navigated(self, element) ==
    /\ fault = "none"
    /\ cursor.kind = "none"
    /\ inserts < MaxNodePushes
    /\ self \in LinkedList_nodes_mut(linked)
    /\ \A i \in 1..Len(LinkedList_chain(linked)) : self # LinkedList_chain(linked)[i]
    /\ IF self \notin DOMAIN linked.heap
       THEN LinkedUseAfterFree("Node::push_before", element)
       ELSE \E new_node \in allocate_nonnull(linked.heap) :
            IF ~Node_push_before_safe(linked, self, new_node)
            THEN LinkedUseAfterFree("Node::push_before", element)
            ELSE /\ linked' = Node_push_before(linked, self, element, new_node)
                 /\ op' = Called("Node::push_before", element, None)
                 /\ inserts' = inserts + 1
                 /\ UNCHANGED <<fault, PackedVars>>

\* node.set(element) on a node the program holds a &mut Node of
node_set(self, element) ==
    /\ fault = "none"
    /\ cursor.kind = "none"
    /\ self \in LinkedList_nodes_mut(linked)
    /\ IF self \notin DOMAIN linked.heap
       THEN LinkedUseAfterFree("Node::set", element)
       ELSE /\ linked' = [linked EXCEPT !.heap[self].value = element]
            /\ op' = Called("Node::set", element, None)
            /\ UNCHANGED <<fault, inserts, PackedVars>>

\* node.replace_value(element) on a node the program holds a &mut Node of:
\* it returns the value the node held
node_replace_value(self, element) ==
    /\ fault = "none"
    /\ cursor.kind = "none"
    /\ self \in LinkedList_nodes_mut(linked)
    /\ IF self \notin DOMAIN linked.heap
       THEN LinkedUseAfterFree("Node::replace_value", element)
       ELSE /\ linked' = [linked EXCEPT !.heap[self].value = element]
            /\ op' = Called("Node::replace_value", element,
                            Some(linked.heap[self].value))
            /\ UNCHANGED <<fault, inserts, PackedVars>>

\* *list.iter_mut().nth(k - 1).unwrap() = element: the k calls of
\* IterMut::next read the next links of the first k nodes, as the loop of
\* get_mut_node(k - 1) does, and the write goes to the value of the k-th.
linked_iter_mut_write(k, element) ==
    /\ fault = "none"
    /\ cursor.kind = "none"
    /\ IF ~LinkedList_get_safe(linked, k - 1)
       THEN LinkedUseAfterFree("LinkedList::iter_mut", element)
       ELSE LET node == LinkedList_get_mut_node(linked, k - 1)
            IN /\ node # NULL
               /\ linked' = [linked EXCEPT !.heap[node].value = element]
               /\ op' = CalledAt("LinkedList::iter_mut", element, None, k)
               /\ UNCHANGED <<fault, inserts, PackedVars>>

\* drop(list): Drop::drop walks from start along next and frees every node it
\* meets; nothing of the list is left (cursor.kind becomes "dropped"), the
\* nodes the walk did not meet stay allocated for ever.
linked_drop ==
    /\ fault = "none"
    /\ cursor.kind = "none"
    /\ LET d == LinkedList_drop(linked, linked.start, MaxNodes + 1)
       IN IF ~d.ok
          THEN LinkedUseAfterFree("LinkedList::drop", Uninit)
          ELSE /\ linked' = [heap |-> d.heap, start |-> NULL, end |-> NULL]
               /\ cursor' = [kind |-> "dropped", node |-> NULL, index |-> 0]
               /\ op' = Called("LinkedList::drop", Uninit, None)
               /\ UNCHANGED <<COUNT, heap, first, last, len, inserts, fault>>

\* list.into_iter(): the list is moved into the iterator and forgotten
linked_into_iter ==
    /\ fault = "none"
    /\ cursor.kind = "none"
    /\ cursor' = [kind |-> "linked_into_iter", node |-> linked.start, index |-> 0]
    /\ linked' = [linked EXCEPT !.start = NULL, !.end = NULL]
    /\ op' = Called("LinkedList::into_iter", Uninit, None)
    /\ UNCHANGED <<COUNT, heap, first, last, len, inserts, fault>>

\* IntoIter::next of the plain list
linked_into_iter_next ==
    /\ fault = "none"
    /\ cursor.kind = "linked_into_iter"
    /\ IF cursor.node # NULL /\ cursor.node \notin DOMAIN linked.heap
       THEN /\ fault' = "use_after_free"
            /\ op' = Called("LinkedList::IntoIter::next", Uninit, None)
            /\ UNCHANGED <<linked, inserts, PackedVars>>
       ELSE LET r == LinkedList_IntoIter_next([heap |-> linked.heap, node |-> cursor.node])
            IN /\ linked' = [linked EXCEPT !.heap = r.it.heap]
               /\ cursor' = [cursor EXCEPT !.node = r.it.node]
               /\ op' = Called("LinkedList::IntoIter::next", Uninit, r.item)
               /\ UNCHANGED <<COUNT, heap, first, last, len, inserts, fault>>

\* The drop of the IntoIter of the plain list: it drains the iterator;
\* nothing of list or iterator is left.
linked_into_iter_drop ==
    /\ fault = "none"
    /\ cursor.kind = "linked_into_iter"
    /\ LET d == LinkedList_IntoIter_drop([heap |-> linked.heap, node |-> cursor.node], MaxNodes + 1)
       IN /\ linked' = [linked EXCEPT !.heap = d.it.heap]
          /\ cursor' = [kind |-> "dropped", node |-> d.it.node, index |-> 0]
          /\ fault' = IF d.ok THEN "none" ELSE "use_after_free"
          /\ op' = Called("LinkedList::IntoIter::drop", Uninit, None)
          /\ UNCHANGED <<COUNT, heap, first, last, len, inserts>>

\* The operations of the list itself: a double-ended queue, and its drop.
NextDeque ==
    \/ \E element \in Values : push_front(element)
    \/ \E element \in Values : push_back(element)
    \/ pop_front
    \/ pop_back
    \/ list_drop

NextCursor ==
    \/ cursor_mut_front
    \/ cursor_mut_back
    \/ move_next
    \/ move_prev
    \/ \E element \in Values : insert_after(element)
    \/ \E element \in Values : get_mut_write(element)
    \/ cursor_drop

\* A list holds at most MaxLen counted elements and one more slot per
\* insert_after, so an iterator yields at most MaxLen + MaxInserts items.
NextIter ==
    \E walk \in {IterMutOf(List)} :
    \E k \in 1..(MaxLen + MaxInserts) : \E element \in Values :
        iter_mut_write(walk, k, element)

Next == NextDeque \/ NextCursor \/ NextIter

Spec == Init /\ [][Next]_vars

NextIntoIter ==
    \/ into_iter
    \/ into_iter_next
    \/ into_iter_drop

\* Lists built and changed in every way, then consumed by into_iter.
SpecConsume == Init /\ [][Next \/ NextIntoIter]_vars

\* Lists built by from_iter (push_back of every item), then consumed.
SpecRoundTrip ==
    Init /\ [][(\E element \in Values : push_back(element)) \/ NextIntoIter]_vars

\* Plain lists built and used through the calls on the list itself: the
\* deque calls, the reads, the write through iter_mut, the drop and the
\* consuming iterator.
NextLinkedDeque ==
    \/ \E element \in Values : linked_push_front(element)
    \/ \E element \in Values : linked_push_back(element)
    \/ linked_pop_front
    \/ linked_pop_back
    \/ \E index \in 0..MaxNodes : linked_get(index)
    \/ linked_get_head
    \/ linked_get_tail
    \/ \E k \in 1..MaxNodes : \E element \in Values : linked_iter_mut_write(k, element)
    \/ linked_drop
    \/ linked_into_iter
    \/ linked_into_iter_next
    \/ linked_into_iter_drop

\* The calls on a node obtained from the list.
NextLinkedNode ==
    \/ \E index \in 0..(MaxNodes - 1) : \E element \in Values :
          node_push_after(index, element)
    \/ \E index \in 0..(MaxNodes - 1) : \E element \in Values :
          node_push_before(index, element)
    \/ \E self \in NodeIds : \E element \in Values :
          node_push_after_navigated(self, element)
    \/ \E self \in NodeIds : \E element \in Values :
          node_push_before_navigated(self, element)
    \/ \E self \in NodeIds : \E element \in Values : node_set(self, element)
    \/ \E self \in NodeIds : \E element \in Values : node_replace_value(self, element)

\* The plain LinkedList of one program (the PackedLinkedList stays as created,
\* so one COUNT is enough).
InitLinked == Init /\ COUNT = 1

SpecLinked == InitLinked /\ [][NextLinkedDeque \/ NextLinkedNode]_vars

SpecLinkedDeque == InitLinked /\ [][NextLinkedDeque]_vars

\* Lists built by pushes and pops, with a cursor that moves and calls
\* insert_before.
SpecInsertBefore ==
    Init /\ [][\/ NextDeque
               \/ cursor_mut_front
               \/ cursor_mut_back
               \/ move_next
               \/ move_prev
               \/ cursor_drop
               \/ \E element \in Values : get_mut_write(element)
               \/ \E element \in Values : insert_before(element)]_vars

\* Lists of COUNT 1 with a cursor that may call insert_after twice.
InitCountOne == Init /\ COUNT = 1

SpecTwoInserts ==
    InitCountOne /\ [][\/ NextDeque
                       \/ cursor_mut_front
                       \/ cursor_mut_back
                       \/ move_next
                       \/ move_prev
                       \/ cursor_drop
                       \/ \E element \in Values : get_mut_write(element)
                       \/ \E element \in Values :
                             insert_after_within(MaxInserts + 1, element)]_vars

\* The same lists, also written through iter_mut.
SpecTwoInsertsIter ==
    InitCountOne /\ [][\/ NextDeque
                       \/ cursor_mut_front
                       \/ cursor_mut_back
                       \/ move_next
                       \/ move_prev
                       \/ cursor_drop
                       \/ \E element \in Values : get_mut_write(element)
                       \/ \E element \in Values :
                             insert_after_within(MaxInserts + 1, element)
                       \/ NextIter]_vars

\* Lists built and used through push_front, push_back, pop_front, pop_back only.
SpecDeque == Init /\ [][NextDeque]_vars

\* ------------------------------------------------- observations of a state
Reverse(s) == [i \in 1..Len(s) |-> s[Len(s) + 1 - i]]

\* s with x inserted so that it is the element at 0-based position i
InsertAt(s, i, x) == SubSeq(s, 1, i) \o <<x>> \o SubSeq(s, i + 1, Len(s))

RECURSIVE ChainFrom(_, _, _)
\* The node ids met from n by following next, n included; a walk ends at None
\* and at an id that is not allocated (which is still listed).
ChainFrom(L, n, fuel) ==
    IF n = NULL \/ fuel = 0 THEN <<>>
    ELSE IF n \notin DOMAIN L.heap THEN <<n>>
    ELSE <<n>> \o ChainFrom(L, L.heap[n].next, fuel - 1)

RECURSIVE BackChainFrom(_, _, _)
\* The same by following prev.
BackChainFrom(L, n, fuel) ==
    IF n = NULL \/ fuel = 0 THEN <<>>
    ELSE IF n \notin DOMAIN L.heap THEN <<n>>
    ELSE <<n>> \o BackChainFrom(L, L.heap[n].prev, fuel - 1)

ForwardChain == ChainFrom(List, first, MaxNodes + 1)
BackwardChain == BackChainFrom(List, last, MaxNodes + 1)
Range(s) == {s[i] : i \in 1..Len(s)}
\* Every node the container reaches through first / next or last / prev.
ReachableNodes == Range(ForwardChain) \cup Range(BackwardChain)

RECURSIVE PositionFrom(_, _, _, _)
\* The 0-based position in forward traversal order of the element cursor c
\* points at, counted from node n on; -1 when the walk does not meet c.node.
PositionFrom(L, n, c, fuel) ==
    IF n = NULL \/ fuel = 0 \/ n \notin DOMAIN L.heap THEN -1
    ELSE IF n = c.node THEN c.index
    ELSE LET r == PositionFrom(L, L.heap[n].next, c, fuel - 1)
         IN IF r < 0 THEN -1 ELSE L.heap[n].size + r

CursorPosition == PositionFrom(List, first, cursor, MaxNodes + 1)

\* The same for any cursor c on the current list.
CursorPositionOf(c) == PositionFrom(List, first, c, MaxNodes + 1)

\* Cursor c points at a live slot of a node of the forward chain.
OnElement(c) ==
    /\ c.node \in DOMAIN heap
    /\ c.index < heap[c.node].size
    /\ CursorPositionOf(c) >= 0

RECURSIVE IterExhaust(_, _, _)
\* The iterator `it` after the calls of next up to and including the first that
\* returns None (or up to a call that would touch memory that is not allocated).
IterExhaust(L, it, fuel) ==
    IF fuel = 0 \/ ~Iter_next_safe(L, it) THEN it
    ELSE LET r == Iter_next(L, it)
         IN IF r.item = None THEN r.it
            ELSE CHOOSE e \in {IterExhaust(l, i, fuel - 1) : l \in {L}, i \in {r.it}} : TRUE

RECURSIVE SlotsOf(_, _)
\* The live slots values[0 .. k) of a node, in index order.
SlotsOf(node, k) ==
    IF k = 0 THEN <<>> ELSE Append(SlotsOf(node, k - 1), node.values[k - 1])

RECURSIVE ChainSlots(_, _)
\* The live slots of the allocated nodes of a chain of node ids, node by node.
ChainSlots(L, chain) ==
    IF chain = <<>> THEN <<>>
    ELSE (IF Head(chain) \in DOMAIN L.heap
          THEN SlotsOf(L.heap[Head(chain)], L.heap[Head(chain)].size) ELSE <<>>)
         \o ChainSlots(L, Tail(chain))

\* The elements of the list read off its nodes: first, then along next.
ChainElements == ChainSlots(List, ForwardChain)

\* The walk from first along next stays in allocated nodes and ends at None:
\* the forward traversal is defined and finite.
ForwardChainSound ==
    /\ Len(ForwardChain) <= MaxNodes
    /\ \A i \in 1..Len(ForwardChain) : ForwardChain[i] \in DOMAIN heap

\* Whether the call of Iter::next on `it` steps from an allocated node over
\* a next link to memory that is not allocated. The only read of that memory
\* the call makes is debug_assert_ne!(next_node.size, 0): a build with debug
\* assertions dereferences it, a build without them returns a reference into
\* it unread.
Iter_next_debug_read_only(L, it) ==
    /\ it.node \in DOMAIN L.heap
    /\ ~Iter_next_safe(L, it)

RECURSIVE zip_all(_, _, _, _)
\* self.iter().zip(other.iter()).all(|(a, b)| a == b) from the i-th pair on,
\* a and b being the outcomes of the two iterators run to their ends: zip
\* calls a.next() and then b.next(), and ends with the first None; all ends
\* with the first pair that differs. The set of the outcomes the builds can
\* produce: eq is the result, end tells how the call ends: "none" when it
\* returns, "use_after_free" when a call of next it makes dereferences
\* memory that is not allocated, "never" when both walks go around a cycle
\* of equal items. a_debug_read tells that the call of a.next() that faults
\* reads the memory in its debug assertion alone: when b.next() then returns
\* None, zip drops the item of a unread, and a build without debug assertions
\* returns true.
zip_all(a, b, i, a_debug_read) ==
    IF i > Len(a.items)
    THEN {[eq |-> a.end = "none", end |-> a.end]}
         \cup (IF /\ a.end = "use_after_free" /\ a_debug_read
                   /\ i > Len(b.items) /\ b.end = "none"
                THEN {[eq |-> TRUE, end |-> "none"]} ELSE {})
    ELSE IF i > Len(b.items)
    THEN {[eq |-> b.end = "none", end |-> b.end]}
    ELSE IF a.items[i] # b.items[i] THEN {[eq |-> FALSE, end |-> "none"]}
    ELSE zip_all(a, b, i + 1, a_debug_read)

\* PartialEq::eq: self.len() == other.len() && the zip of the two iterators;
\* the iterators are not run when the lens differ. The set of the outcomes
\* the builds can produce; stop is the call at which self.iter() ends.
list_eq(L1, L2) ==
    IF L1.len # L2.len THEN {[eq |-> FALSE, end |-> "none"]}
    ELSE CHOOSE r \in {zip_all(a, b, 1, Iter_next_debug_read_only(L1, stop)) :
                         a \in {IterOf(L1)}, b \in {IterOf(L2)},
                         stop \in {IterExhaust(L1, Iter_new(L1), IterFuel)}} : TRUE

\* Clone::clone: self.iter().cloned().collect(); collect is from_iter, and its
\* nodes are new allocations, at the addresses addrs. list is the clone, end
\* tells how the call ends: it returns no list when the iterator dereferences
\* memory that is not allocated or never ends.
list_clone(L, addrs) ==
    LET walk == IterOf(L)
    IN [list |-> from_iter(IF walk.end = "none" THEN walk.items ELSE <<>>, addrs),
        end |-> walk.end]

\* The orders in which Box::new may hand out the addresses of a heap of its
\* own: every sequence of the MaxNodes addresses without repetition.
AllocOrders ==
    {a \in [1..MaxNodes -> NodeIds] : \A i, j \in 1..MaxNodes : a[i] = a[j] => i = j}

\* s is a strict prefix of t.
StrictPrefix(s, t) == Len(s) < Len(t) /\ SubSeq(t, 1, Len(s)) = s

\* debug_assert!(self.size < COUNT) of Node::push_back and Node::push_front
Node_push_pre(node) == node.size < COUNT

\* debug_assert!(self.size < COUNT); debug_assert!(self.size > index) of Node::insert
Node_insert_pre(node, index) == node.size < COUNT /\ node.size > index

\* The node on which PackedLinkedList::push_front calls Node::push_front.
push_front_target(L, n) ==
    LET L1 == IF push_front_allocates(L) THEN insert_node_start(L, n) ELSE L
    IN L1.heap[L1.first]

\* The node on which PackedLinkedList::push_back calls Node::push_back.
push_back_target(L, n) ==
    LET L1 == IF push_back_allocates(L) THEN insert_node_end(L, n) ELSE L
    IN L1.heap[L1.last]

\* The preconditions of the node primitive that insert_after calls, on the
\* node it calls it on; the (false, true) arm calls none.
insert_after_pre(L, c, n) ==
    IF c.node = NULL THEN Node_push_pre(push_front_target(L, n))
    ELSE LET current == L.heap[c.node]
         IN CASE insert_after_append(L, c) /\ ~is_full(current) ->
                    Node_push_pre(current)
              [] insert_after_append(L, c) /\ is_full(current) ->
                    IF insert_after_need_allocate(L, c)
                    THEN Node_push_pre(allocate_new_node_after(L, c, n).heap[n])
                    ELSE Node_push_pre(L.heap[current.next])
              [] ~insert_after_append(L, c) /\ ~is_full(current) ->
                    Node_insert_pre(current, c.index + 1)
              [] OTHER -> TRUE

\* ------------------------------------------------------------------ claims

\* C1: insert_after(x) on a cursor at the live position p makes the forward
\* traversal the traversal before the call with x inserted at position p + 1.
C1_InsertAfterInsertsAtNextPosition ==
    [][(op'.name = "insert_after" /\ cursor.node # NULL /\ CursorPosition >= 0)
        => /\ fault' = "none"
           /\ Traversal' = InsertAt(Traversal, CursorPosition + 1, op'.arg)]_vars

\* C2: len() equals the number of elements a full forward traversal produces.
C2_LenIsTraversalLength ==
    fault = "none" => len = Len(Traversal)

\* C3: every node has 1 <= size <= COUNT: every allocated node, so every node
\* of the chain the container reaches, after every operation.
C3_NodeSizesInRange ==
    \A n \in DOMAIN heap : 1 <= heap[n].size /\ heap[n].size <= COUNT

\* C3 witness: insert_after has split a full node at index 0: the current node
\* keeps two elements and the new node after it is full.
C3_Witness ==
    /\ op.name = "insert_after" /\ fault = "none"
    /\ cursor.node \in DOMAIN heap /\ cursor.index = 0
    /\ heap[cursor.node].size = 2 /\ COUNT > 2
    /\ heap[cursor.node].next \in DOMAIN heap
    /\ heap[heap[cursor.node].next].prev = cursor.node
    /\ heap[heap[cursor.node].next].size = COUNT

\* C4: the links of the chain are consistent in both directions; the first node
\* has no prev and the last node has no next.
C4_LinksConsistent ==
    fault = "none" =>
        /\ \A n \in ReachableNodes \cap DOMAIN heap :
              /\ heap[n].next # NULL =>
                    heap[n].next \in DOMAIN heap /\ heap[heap[n].next].prev = n
              /\ heap[n].prev # NULL =>
                    heap[n].prev \in DOMAIN heap /\ heap[heap[n].prev].next = n
        /\ first # NULL => first \in DOMAIN heap /\ heap[first].prev = NULL
        /\ last # NULL => last \in DOMAIN heap /\ heap[last].next = NULL

\* C5: first and last are both absent exactly when len = 0; otherwise both are
\* present, the walk from first along next ends at last and the walk from last
\* along prev ends at first.
C5_FirstLastAbsentIffEmpty ==
    fault = "none" =>
        /\ (first = NULL /\ last = NULL) <=> (len = 0)
        /\ len # 0 =>
              /\ first # NULL /\ last # NULL
              /\ ForwardChain # <<>> /\ ForwardChain[Len(ForwardChain)] = last
              /\ BackwardChain # <<>> /\ BackwardChain[Len(BackwardChain)] = first

\* C6: the backward traversal (cursor_back, then move_prev until ghost) yields
\* the reverse of the forward traversal.
C6_BackwardIsReverseOfForward ==
    fault = "none" => Backward.end = "ghost" /\ Backward.items = Reverse(Traversal)

\* C7: under push_front, push_back, pop_front and pop_back alone the list is a
\* double-ended sequence: a push adds its element at that end of the
\* traversal, a pop returns and removes the element at that end, and a pop of
\* the empty sequence returns None.
C7_DequeRefinement ==
    [][LET before == Traversal
           after == Traversal'
       IN /\ fault' = "none"
          /\ op'.name = "push_front" => after = <<op'.arg>> \o before
          /\ op'.name = "push_back" => after = Append(before, op'.arg)
          /\ op'.name = "pop_front" =>
                IF before = <<>> THEN op'.ret = None /\ after = <<>>
                ELSE op'.ret = Some(Head(before)) /\ after = Tail(before)
          /\ op'.name = "pop_back" =>
                IF before = <<>> THEN op'.ret = None /\ after = <<>>
                ELSE /\ op'.ret = Some(before[Len(before)])
                     /\ after = SubSeq(before, 1, Len(before) - 1)]_vars

\* C7 witness: pop_front returned a value from a list of several nodes whose
\* first and last node are partly filled (both kinds of push and pop acted).
C7_Witness ==
    /\ op.name = "pop_front" /\ op.ret # None
    /\ Cardinality(DOMAIN heap) >= 2
    /\ Len(Traversal) >= 3
    /\ COUNT >= 2
    /\ heap[first].size < COUNT /\ heap[last].size < COUNT

\* C8: pop_back on a non-empty list returns the last element of the forward
\* traversal and removes exactly that element from it.
C8_PopBackRemovesLast ==
    [][LET before == Traversal
       IN (op'.name = "pop_back" /\ before # <<>>)
           => /\ op'.ret = Some(before[Len(before)])
              /\ Traversal' = SubSeq(before, 1, Len(before) - 1)]_vars

\* C9: push_back(x) makes x the last element of the forward traversal and keeps
\* the other elements in their order.
C9_PushBackAppends ==
    [][op'.name = "push_back" => Traversal' = Append(Traversal, op'.arg)]_vars

\* C10: on a list with len() = n, n pops in a row each return a value, the
\* elements in traversal order (pop_front) or in reverse traversal order
\* (pop_back), and every later pop returns None. Step by step: a pop at
\* len() > 0 returns the element at its end of the traversal and leaves
\* len() - 1; a pop at len() = 0 returns None and leaves len() = 0.
C10_PopsDrainThenNone ==
    [][LET before == Traversal
       IN op'.name \in {"pop_front", "pop_back"} =>
             IF len = 0 THEN op'.ret = None /\ len' = 0
             ELSE /\ len' = len - 1
                  /\ before # <<>>
                  /\ op'.ret = Some(IF op'.name = "pop_front" THEN Head(before)
                                    ELSE before[Len(before)])
                  /\ Traversal' = (IF op'.name = "pop_front" THEN Tail(before)
                                   ELSE SubSeq(before, 1, Len(before) - 1))]_vars

\* C11: pop_front and pop_back on a container with len() = 0 return None,
\* leave first, last, len and every node unchanged, and do not panic.
C11_PopOnEmptyIsNoOp ==
    [][(op'.name \in {"pop_front", "pop_back"} /\ len = 0)
        => /\ op'.ret = None
           /\ fault' = "none"
           /\ UNCHANGED <<heap, first, last, len>>]_vars

\* C12: insert_after does not move the cursor: its (node, index) pair is the
\* same after the call, and get() returns the same element (None at ghost).
C12_InsertAfterKeepsCursor ==
    [][(op'.name = "insert_after" /\ fault' = "none")
        => /\ cursor'.node = cursor.node /\ cursor'.index = cursor.index
           /\ Cursor_get_safe(List', cursor')
           /\ Cursor_get(List', cursor') = Cursor_get(List, cursor)]_vars

\* C12 witness: insert_after has acted on a cursor inside a node (the node has
\* at least two elements after the cursor's, the first of them the new one),
\* and in another run on a cursor at ghost; here the first.
C12_Witness ==
    /\ op.name = "insert_after" /\ fault = "none"
    /\ cursor.node \in DOMAIN heap
    /\ heap[cursor.node].size >= cursor.index + 3
    /\ heap[cursor.node].values[cursor.index + 1] = op.arg
    /\ heap[cursor.node].values[cursor.index] # op.arg

\* C13: with the cursor at ghost, insert_after(x) leaves the container in the
\* state push_front(x) would: x is the first element of the traversal, the
\* elements before the call follow it, and len grows by one.
C13_GhostInsertIsPushFront ==
    [][(op'.name = "insert_after" /\ cursor.node = NULL /\ fault' = "none")
        => /\ \E n \in NewNode(push_front_allocates(List), heap) :
                 List' = list_push_front(List, op'.arg, n)
           /\ len' = len + 1
           /\ Traversal' # <<>> /\ Head(Traversal') = op'.arg
           /\ ForwardChainSound => Traversal' = <<op'.arg>> \o Traversal]_vars

\* C13 witness: insert_after at ghost on a non-empty list whose first node was
\* full, so that the element went into a new first node.
C13_Witness ==
    /\ op.name = "insert_after" /\ fault = "none"
    /\ cursor.node = NULL
    /\ first \in DOMAIN heap /\ heap[first].size = 1 /\ COUNT > 1
    /\ heap[first].next \in DOMAIN heap
    /\ len >= 3

\* C14: every call of insert_after increases len() by exactly one.
C14_InsertAfterLenPlusOne ==
    [][(op'.name = "insert_after" /\ fault' = "none") => len' = len + 1]_vars

\* C14 witness: insert_after has split a full node (the branch that allocates
\* and moves elements) and len is the len before plus one.
C14_Witness ==
    /\ op.name = "insert_after" /\ fault = "none"
    /\ cursor.node \in DOMAIN heap
    /\ heap[cursor.node].size = cursor.index + 2
    /\ heap[cursor.node].size < COUNT
    /\ heap[cursor.node].next \in DOMAIN heap
    /\ heap[heap[cursor.node].next].size = COUNT - cursor.index
    /\ len = COUNT + 1

\* C15: insert_after(x) with the cursor on the last live index of a full node
\* whose next node exists and is not full pushes x to the front of that next
\* node: x is at its index 0, its former elements follow in their old order,
\* and no node is allocated.
C15_InsertIntoNextNodeFront ==
    [][(/\ op'.name = "insert_after" /\ fault' = "none"
        /\ cursor.node \in DOMAIN heap
        /\ heap[cursor.node].size = COUNT
        /\ cursor.index = COUNT - 1
        /\ heap[cursor.node].next \in DOMAIN heap
        /\ heap[heap[cursor.node].next].size < COUNT)
        => LET next == heap[cursor.node].next
           IN /\ DOMAIN heap' = DOMAIN heap
              /\ heap'[next].size = heap[next].size + 1
              /\ heap'[next].values[0] = op'.arg
              /\ \A j \in 0..(heap[next].size - 1) :
                    heap'[next].values[j + 1] = heap[next].values[j]]_vars

\* C16: insert_after(x) with the cursor on the last live index of a full node
\* whose next node is absent or full allocates one node holding exactly x,
\* linked between the current node and its former next; when the current node
\* was the tail the new node is the last node of the list.
C16_InsertAllocatesNodeBetween ==
    [][(/\ op'.name = "insert_after" /\ fault' = "none"
        /\ cursor.node \in DOMAIN heap
        /\ heap[cursor.node].size = COUNT
        /\ cursor.index = COUNT - 1
        /\ \/ heap[cursor.node].next = NULL
           \/ /\ heap[cursor.node].next \in DOMAIN heap
              /\ heap[heap[cursor.node].next].size = COUNT)
        => LET next == heap[cursor.node].next
           IN \E n \in NodeIds \ DOMAIN heap :
                 /\ DOMAIN heap' = DOMAIN heap \cup {n}
                 /\ heap'[n].size = 1 /\ heap'[n].values[0] = op'.arg
                 /\ heap'[cursor.node].next = n /\ heap'[n].prev = cursor.node
                 /\ heap'[n].next = next
                 /\ next # NULL => heap'[next].prev = n
                 /\ last = cursor.node => last' = n]_vars

\* C17: insert_after(x) with the cursor at an interior index i of a full node
\* of size s allocates a node directly after the current one, moves exactly
\* the s - i - 1 elements formerly at i+1..s-1 into it in order, writes x at
\* current[i+1], and sets current.size = i + 2 and new.size = s - i - 1.
C17_InsertSplitsFullNode ==
    [][(/\ op'.name = "insert_after" /\ fault' = "none"
        /\ cursor.node \in DOMAIN heap
        /\ heap[cursor.node].size = COUNT
        /\ cursor.index < COUNT - 1)
        => LET i == cursor.index
               s == heap[cursor.node].size
           IN \E n \in NodeIds \ DOMAIN heap :
                 /\ DOMAIN heap' = DOMAIN heap \cup {n}
                 /\ heap'[cursor.node].next = n /\ heap'[n].prev = cursor.node
                 /\ heap'[cursor.node].values[i + 1] = op'.arg
                 /\ heap'[cursor.node].size = i + 2
                 /\ heap'[n].size = s - i - 1
                 /\ \A j \in 0..(s - i - 2) :
                       heap'[n].values[j] = heap[cursor.node].values[i + 1 + j]
                 /\ heap'[cursor.node].size + heap'[n].size = s + 1]_vars

\* C18: insert_after(x) with the cursor at index i of a node that is not full
\* places x at index i+1 of that node, moves the elements formerly at i+1.. up
\* by one in their order, increases the node's size by one, changes no other
\* node and allocates none.
C18_InsertIntoNodeWithRoom ==
    [][(/\ op'.name = "insert_after" /\ fault' = "none"
        /\ cursor.node \in DOMAIN heap
        /\ heap[cursor.node].size < COUNT)
        => LET i == cursor.index
               old == heap[cursor.node]
           IN /\ DOMAIN heap' = DOMAIN heap
              /\ \A m \in DOMAIN heap \ {cursor.node} : heap'[m] = heap[m]
              /\ heap'[cursor.node].size = old.size + 1
              /\ heap'[cursor.node].prev = old.prev
              /\ heap'[cursor.node].next = old.next
              /\ \A j \in 0..i : heap'[cursor.node].values[j] = old.values[j]
              /\ heap'[cursor.node].values[i + 1] = op'.arg
              /\ \A j \in (i + 2)..old.size :
                    heap'[cursor.node].values[j] = old.values[j - 1]]_vars

\* C18 witness: insert_after has put its element at index 1 of a single node
\* of three, in front of a different element that moved from index 1 to 2.
C18_Witness ==
    /\ op.name = "insert_after" /\ fault = "none"
    /\ cursor.node \in DOMAIN heap /\ cursor.index = 0
    /\ Cardinality(DOMAIN heap) = 1
    /\ heap[cursor.node].size = 3
    /\ heap[cursor.node].values[1] = op.arg
    /\ heap[cursor.node].values[2] # op.arg

\* C19: on a list with traversal e1..en a move_next from ghost goes to e1 (to
\* ghost again when n = 0), from ek with k < n to e(k+1), crossing from the
\* last live index of a node to index 0 of the next node, and from en to
\* ghost: k calls from ghost reach ek, n + 1 calls are one cycle with ghost
\* visited once.
C19_MoveNextCycle ==
    [][(op'.name = "move_next" /\ fault' = "none" /\ ForwardChainSound)
        => LET T == Traversal
               n == Len(T)
               p == CursorPosition
           IN /\ cursor.node = NULL =>
                    IF n = 0 THEN cursor'.node = NULL
                    ELSE /\ OnElement(cursor') /\ CursorPositionOf(cursor') = 0
                         /\ Cursor_get(List, cursor') = Some(T[1])
              /\ (OnElement(cursor) /\ p < n - 1) =>
                    /\ OnElement(cursor') /\ CursorPositionOf(cursor') = p + 1
                    /\ Cursor_get(List, cursor') = Some(T[p + 2])
              /\ (OnElement(cursor) /\ p = n - 1) => cursor'.node = NULL]_vars

\* C19 witness: move_next has crossed from the last live index of the first
\* node to index 0 of the second node, which is not the last.
C19_Witness ==
    /\ op.name = "move_next" /\ fault = "none"
    /\ ForwardChainSound
    /\ first \in DOMAIN heap
    /\ cursor.node \in DOMAIN heap
    /\ cursor.node = heap[first].next /\ cursor.index = 0
    /\ heap[cursor.node].next # NULL
    /\ CursorPosition = heap[first].size

\* C20: on a list with traversal e1..en a move_prev from ghost goes to en (to
\* ghost again when n = 0), from ek with k > 1 to e(k-1), crossing from index
\* 0 of a node to the last live index of the previous node, and from e1 to
\* ghost: k calls from ghost reach e(n+1-k), n + 1 calls are one cycle.
C20_MovePrevCycle ==
    [][(op'.name = "move_prev" /\ fault' = "none" /\ ForwardChainSound)
        => LET T == Traversal
               n == Len(T)
               p == CursorPosition
           IN /\ cursor.node = NULL =>
                    IF n = 0 THEN cursor'.node = NULL
                    ELSE /\ OnElement(cursor') /\ CursorPositionOf(cursor') = n - 1
                         /\ Cursor_get(List, cursor') = Some(T[n])
              /\ (OnElement(cursor) /\ p > 0) =>
                    /\ OnElement(cursor') /\ CursorPositionOf(cursor') = p - 1
                    /\ Cursor_get(List, cursor') = Some(T[p])
              /\ (OnElement(cursor) /\ p = 0) => cursor'.node = NULL]_vars

\* C21: from any live cursor position move_next followed by move_prev returns
\* the cursor to the same (node, index); from ghost move_prev followed by
\* move_next returns to ghost.
C21_NextPrevRoundTrip ==
    (fault = "none" /\ cursor.kind = "cursor_mut") =>
        /\ cursor.node # NULL =>
              /\ move_next_safe(List, cursor)
              /\ LET c1 == Cursor_move_next(List, cursor)
                 IN /\ move_prev_safe(List, c1)
                    /\ Cursor_move_prev(List, c1) = cursor
        /\ cursor.node = NULL =>
              /\ move_prev_safe(List, cursor)
              /\ LET c1 == Cursor_move_prev(List, cursor)
                 IN /\ move_next_safe(List, c1)
                    /\ Cursor_move_next(List, c1) = cursor

\* C22: get returns None exactly when the cursor is at the ghost position,
\* which is where cursor_front / cursor_back of an empty list (len() = 0) put
\* it; at every other position it returns Some of the element at the cursor's
\* position in traversal order. get_mut returns a reference to the same slot:
\* None at ghost (nothing can be written), and a write through it replaces
\* exactly the element at the cursor's position. Neither call ever
\* dereferences memory that is not allocated.
C22_GetAtCursor ==
    /\ []((fault = "none" /\ cursor.kind = "cursor_mut") =>
            /\ Cursor_get_safe(List, cursor)
            /\ (Cursor_get(List, cursor) = None) <=> (cursor.node = NULL)
            /\ (op.name \in {"cursor_mut_front", "cursor_mut_back"} /\ len = 0)
                  => Cursor_get(List, cursor) = None
            /\ cursor.node # NULL =>
                  /\ CursorPosition >= 0
                  /\ CursorPosition < Len(Traversal)
                  /\ Cursor_get(List, cursor) = Some(Traversal[CursorPosition + 1]))
    /\ [][op'.name = "get_mut" =>
            /\ fault' = "none"
            /\ op'.ret = Cursor_get(List, cursor)
            /\ cursor.node = NULL =>
                  op'.ret = None /\ UNCHANGED <<heap, first, last, len>>
            /\ cursor.node # NULL =>
                  /\ \E after \in {List'} :
                        IterOf(after).items = [Traversal EXCEPT ![CursorPosition + 1] = op'.arg]
                  /\ UNCHANGED <<first, last, len, cursor>>]_vars

\* C23: iter() yields every element once, in forward order across the node
\* boundaries, for exactly len() items, then returns None and keeps returning
\* None on every later call.
C23_IterYieldsLenItemsThenNone ==
    fault = "none" =>
        /\ Traversal = ChainElements
        /\ Len(Traversal) = len
        /\ LET end == IterExhaust(List, Iter_new(List), IterFuel)
           IN /\ Iter_next_safe(List, end)
              /\ Iter_next(List, end).item = None
              /\ Iter_next(List, end).it = end

\* C24: iter_mut() visits the positions of iter() in the same order; writing
\* through the k-th reference changes exactly the k-th element of the forward
\* traversal and leaves every other element, the nodes' sizes and links, and
\* len unchanged.
C24_IterMutWritesKthElement ==
    [][(op'.name = "iter_mut_write" /\ fault' = "none")
        => \E T \in {Traversal} : \E refs \in {IterMutRefs(List)} : \E k \in {op'.at} :
              /\ Len(refs) = Len(T)
              /\ \A j \in 1..Len(refs) :
                    heap[refs[j].node].values[refs[j].index] = T[j]
              /\ k \in 1..Len(T)
              /\ \E after \in {List'} : IterOf(after).items = [T EXCEPT ![k] = op'.arg]
              /\ DOMAIN heap' = DOMAIN heap
              /\ \A n \in DOMAIN heap :
                    /\ heap'[n].size = heap[n].size
                    /\ heap'[n].prev = heap[n].prev
                    /\ heap'[n].next = heap[n].next
              /\ UNCHANGED <<first, last, len>>]_vars

\* The input sequences of the round trip: every sequence of at most MaxLen
\* values whose nodes fit the heap of the model.
InputSeqs == UNION {[1..n -> Values] : n \in {m \in 0..MaxLen : m <= MaxNodes * COUNT}}

\* C25: for every input sequence and every COUNT, from_iter and then into_iter
\* yields exactly the input sequence in its order, followed by None. Stated for
\* the functions (for every input and every order of the addresses of the new
\* nodes; they depend on COUNT alone and are evaluated in the state after
\* new() of each COUNT) and for the run step by step: a push_back
\* of from_iter appends its item to what the consuming iterator will yield,
\* into_iter keeps it, and every next returns its head, None at the end.
C25_FromIterIntoIterRoundTrip ==
    /\ [](op.name = "new" =>
            \A seq \in InputSeqs : \A addrs \in AllocOrders :
               LET S0 == IntoIter_new(from_iter(seq, addrs))
                   d == IntoIterDrain(S0, IterFuel)
               IN /\ IntoIterCollect(S0, IterFuel) = {seq}
                  /\ d.ok
                  /\ \A g \in Garbage : IntoIter_next(d.it, g).item = None)
    /\ [][/\ op'.name = "push_back" =>
                \E rem \in IntoIterCollect(IntoIter_new(List), IterFuel) :
                   /\ IntoIterCollect(IntoIter_new(List), IterFuel) = {rem}
                   /\ IntoIterCollect(IntoIter_new(List'), IterFuel)
                         = {Append(rem, op'.arg)}
          /\ op'.name = "into_iter" =>
                \E rem \in IntoIterCollect(IntoIter_new(List), IterFuel) :
                   /\ IntoIterCollect(IntoIter_new(List), IterFuel) = {rem}
                   /\ IntoIterCollect(IntoIterState', IterFuel) = {rem}
          /\ op'.name = "into_iter_next" =>
                \E rem \in IntoIterCollect(IntoIterState, IterFuel) :
                   /\ IntoIterCollect(IntoIterState, IterFuel) = {rem}
                   /\ fault' = "none"
                   /\ IF rem = <<>> THEN op'.ret = None
                      ELSE op'.ret = Some(Head(rem))
                   /\ IntoIterCollect(IntoIterState', IterFuel)
                         = {IF rem = <<>> THEN <<>> ELSE Tail(rem)}]_vars

\* C25 witness: the sixth call of next on the iterator of a list of four items
\* in two nodes returned None, after the fifth had.
C25_Witness ==
    /\ op.name = "into_iter_next" /\ op.ret = None /\ op.at = MaxLen + 2
    /\ COUNT = 2 /\ cursor.node = NULL /\ fault = "none"

\* C26: the consuming iterator deallocates a node only after all of its
\* elements were extracted, and once it has returned None or was dropped
\* (after any number of calls of next) no node stays allocated and none was
\* freed twice.
C26_IntoIterFreesEveryNodeOnce ==
    /\ []((\/ cursor.kind = "dropped"
           \/ /\ cursor.kind = "into_iter"
              /\ op.name = "into_iter_next" /\ op.ret = None)
          => (fault = "none" /\ DOMAIN heap = {}))
    /\ [][op'.name \in {"into_iter_next", "into_iter_drop"} =>
            /\ fault' = "none"
            /\ op'.name = "into_iter_next" =>
                  \A n \in DOMAIN heap \ DOMAIN heap' :
                     /\ n = cursor.node
                     /\ cursor.index >= heap[n].size
                     /\ \A i \in 0..(COUNT - 1) : heap[n].values[i] = Uninit]_vars

\* C27: the container compares equal to a container built by from_iter exactly
\* when the two forward traversals are the same sequence, whatever the node
\* layout; in particular it is not equal to one whose traversal is a strict
\* prefix of its own, nor to one of whose traversal its own is a strict prefix.
C27_EqIffSameTraversal ==
    fault = "none" =>
       \A seq \in InputSeqs : \A addrs \in AllocOrders :
          LET other == from_iter(seq, addrs)
          IN /\ IterOf(other) = [items |-> seq, end |-> "none"]
             /\ \A r \in list_eq(List, other) :
                   /\ r.end = "none"
                   /\ r.eq <=> (Traversal = seq)
                   /\ (StrictPrefix(seq, Traversal) \/ StrictPrefix(Traversal, seq))
                         => ~r.eq
             /\ \A r \in list_eq(other, List) :
                   /\ r.end = "none"
                   /\ r.eq <=> (Traversal = seq)

\* C28: the clone of the container is equal to it, has its len and its forward
\* traversal, and is equal to from_iter of that traversal.
C28_CloneIsEqual ==
    fault = "none" =>
       \A addrs \in AllocOrders :
          LET c == list_clone(List, addrs).list
          IN /\ list_clone(List, addrs).end = "none"
             /\ \A r \in list_eq(List, c) : r.end = "none" /\ r.eq
             /\ \A r \in list_eq(c, List) : r.end = "none" /\ r.eq
             /\ c.len = len
             /\ IterOf(c) = [items |-> Traversal, end |-> "none"]

\* C29: in every node reachable from first or last the slots below size hold
\* a value (none is uninitialised or moved out) and size is at most COUNT, and
\* insert_after never reads a slot outside the values array of its node.
C29_OnlySlotsBelowSizeLive ==
    /\ [](fault = "none" =>
            \A n \in ReachableNodes \cap DOMAIN heap :
               /\ heap[n].size <= COUNT
               /\ \A i \in 0..(COUNT - 1) : i < heap[n].size => heap[n].values[i] # Uninit)
    /\ [][op'.name = "insert_after" /\ fault' = "none"
             => ~insert_after_reads_outside(List, cursor)]_vars

\* C30: every call of push_front, push_back and insert_after enters the node
\* primitive it calls on a node that is not full, Node::insert with an index
\* below the node's size, and no allocated node is empty (the debug_assert_ne
\* of the pops and the iterators), for every COUNT >= 1.
C30_NodePrimitivePreconditions ==
    /\ [](fault = "none" => \A n \in DOMAIN heap : heap[n].size # 0)
    /\ [][/\ (op'.name = "push_front" /\ fault' = "none")
                => \A n \in NewNode(push_front_allocates(List), heap) :
                      Node_push_pre(push_front_target(List, n))
          /\ (op'.name = "push_back" /\ fault' = "none")
                => \A n \in NewNode(push_back_allocates(List), heap) :
                      Node_push_pre(push_back_target(List, n))
          /\ (op'.name = "insert_after" /\ fault' = "none")
                => \A n \in NewNode(insert_after_allocates(List, cursor), heap) :
                      insert_after_pre(List, cursor, n)]_vars

\* C30 witness: insert_after has called Node::insert on a node of COUNT 3 that
\* held two elements, the cursor on the first of them.
C30_Witness ==
    /\ op.name = "insert_after" /\ fault = "none"
    /\ COUNT = 3 /\ Cardinality(DOMAIN heap) = 1
    /\ cursor.node \in DOMAIN heap /\ cursor.index = 0
    /\ heap[cursor.node].size = 3

\* The forward traversal of the plain list.
LinkedTraversal == LinkedList_iter(linked).items

\* C31: every call get(i) on the plain LinkedList returns, without touching a
\* deallocated node, the i-th element (0-based) of the forward traversal when
\* i is below its length and None otherwise.
C31_LinkedGetIndexOrNone ==
    [][op'.name = "LinkedList::get" =>
          /\ fault' = "none"
          /\ LinkedList_iter_safe(linked)
          /\ op'.ret = (IF op'.arg < Len(LinkedTraversal)
                        THEN Some(LinkedTraversal[op'.arg + 1]) ELSE None)]_vars

\* The last element of a sequence as an Option.
LastOf(s) == IF s = <<>> THEN None ELSE Some(s[Len(s)])

\* C32: on the plain LinkedList get_head() returns the first and get_tail()
\* the last element of the forward traversal (None on an empty one), and
\* pop_back returns and removes that last element, after any calls of the
\* pushes, the pops and Node::push_after / push_before.
C32_LinkedHeadTailAreTraversalEnds ==
    [][LET T == LinkedTraversal
       IN /\ op'.name = "LinkedList::get_head" =>
                /\ fault' = "none"
                /\ op'.ret = (IF T = <<>> THEN None ELSE Some(T[1]))
          /\ op'.name = "LinkedList::get_tail" =>
                /\ fault' = "none"
                /\ op'.ret = LastOf(T)
          /\ op'.name = "LinkedList::pop_back" =>
                /\ fault' = "none"
                /\ op'.ret = LastOf(T)
                /\ LinkedTraversal' = (IF T = <<>> THEN T ELSE SubSeq(T, 1, Len(T) - 1))]_vars

\* Every prev/next pair of the plain list is mutually consistent: start has no
\* prev, each node of the forward chain is the prev of its next, and end is
\* the node of the chain that has no next.
LinkedLinksConsistent ==
    LET chain == LinkedList_chain(linked)
    IN /\ LinkedList_iter_safe(linked)
       /\ (chain = <<>>) <=> (linked.start = NULL)
       /\ (chain = <<>>) <=> (linked.end = NULL)
       /\ chain # <<>> =>
             /\ linked.heap[chain[1]].prev = NULL
             /\ linked.end = chain[Len(chain)]
             /\ \A i \in 1..(Len(chain) - 1) : linked.heap[chain[i + 1]].prev = chain[i]

\* C33: Node::push_after(x) on the node at index i of the plain list makes the
\* forward traversal the one before with x inserted directly after position
\* i, Node::push_before(x) the one before with x inserted directly before
\* position i (the head included), and the links stay consistent.
C33_LinkedNodePushInsertsNextToNode ==
    [][LET T == LinkedTraversal
           index == op'.at - 1
       IN /\ (op'.name = "Node::push_after" /\ LinkedLinksConsistent) =>
                /\ fault' = "none"
                /\ LinkedTraversal' = InsertAt(T, index + 1, op'.arg)
                /\ LinkedLinksConsistent'
          /\ (op'.name = "Node::push_before" /\ LinkedLinksConsistent) =>
                /\ fault' = "none"
                /\ LinkedTraversal' = InsertAt(T, index, op'.arg)
                /\ LinkedLinksConsistent']_vars

\* ceil(n / COUNT)
CeilDiv(n) == (n + COUNT - 1) \div COUNT

\* C34: push_back (push_front) allocates a node exactly when last (first) is
\* absent or designates a full node, and the element goes to the back of the
\* new or existing last node (the front of the first node); a list built by
\* push_back calls alone has every node but the last full and
\* ceil(len / COUNT) nodes, one built by push_front calls alone every node but
\* the first (for every sequence pushed and every order of the addresses of
\* the new nodes; the built lists depend on COUNT alone and are evaluated in
\* the state after new() of each COUNT).
C34_PushAllocatesWhenEndNodeFull ==
    /\ [](op.name = "new" =>
            \A seq \in InputSeqs : \A addrs \in AllocOrders :
               /\ LET L == from_iter(seq, addrs)
                  IN /\ L.len = Len(seq)
                     /\ Cardinality(DOMAIN L.heap) = CeilDiv(Len(seq))
                     /\ \A n \in DOMAIN L.heap \ {L.last} : L.heap[n].size = COUNT
               /\ LET L == push_front_all(seq, addrs)
                  IN /\ L.len = Len(seq)
                     /\ Cardinality(DOMAIN L.heap) = CeilDiv(Len(seq))
                     /\ \A n \in DOMAIN L.heap \ {L.first} : L.heap[n].size = COUNT)
    /\ [][/\ (op'.name = "push_back" /\ fault' = "none") =>
                IF last = NULL \/ heap[last].size = COUNT
                THEN /\ last' \notin DOMAIN heap
                     /\ DOMAIN heap' = DOMAIN heap \cup {last'}
                     /\ heap'[last'].size = 1
                     /\ heap'[last'].values[0] = op'.arg
                ELSE /\ last' = last
                     /\ DOMAIN heap' = DOMAIN heap
                     /\ heap'[last].size = heap[last].size + 1
                     /\ heap'[last].values[heap[last].size] = op'.arg
          /\ (op'.name = "push_front" /\ fault' = "none") =>
                IF first = NULL \/ heap[first].size = COUNT
                THEN /\ first' \notin DOMAIN heap
                     /\ DOMAIN heap' = DOMAIN heap \cup {first'}
                     /\ heap'[first'].size = 1
                     /\ heap'[first'].values[0] = op'.arg
                ELSE /\ first' = first
                     /\ DOMAIN heap' = DOMAIN heap
                     /\ heap'[first].size = heap[first].size + 1
                     /\ heap'[first].values[0] = op'.arg]_vars

\* C34 witness: the fourth push_back on a list of COUNT 2 built without
\* insert_after has filled the second node and no third one exists.
C34_Witness ==
    /\ op.name = "push_back" /\ fault = "none" /\ inserts = 0
    /\ COUNT = 2 /\ len = 4 /\ Cardinality(DOMAIN heap) = 2
    /\ last # first /\ heap[last].size = 2 /\ heap[first].size = 2

\* C35: a pop_front (pop_back) that takes the only element of the first (last)
\* node deallocates that node and no other, makes the neighbour the new first
\* (last) with its prev (next) absent, and makes first and last absent when
\* there is no neighbour; a pop from a node that keeps elements frees no node,
\* decrements its size and keeps the remaining elements in order (pop_front
\* moves them down one slot). Every other node is left as it is.
C35_PopFreesEmptiedNode ==
    [][/\ (op'.name = "pop_front" /\ op'.ret # None /\ fault' = "none") =>
             LET node == heap[first]
             IN /\ op'.ret = Some(node.values[0])
                /\ IF node.size = 1
                   THEN /\ DOMAIN heap' = DOMAIN heap \ {first}
                        /\ first' = node.next
                        /\ IF node.next = NULL THEN last' = NULL
                           ELSE /\ last' = last
                                /\ heap'[node.next] = [heap[node.next] EXCEPT !.prev = NULL]
                        /\ \A n \in DOMAIN heap' \ {node.next} : heap'[n] = heap[n]
                   ELSE /\ DOMAIN heap' = DOMAIN heap
                        /\ first' = first /\ last' = last
                        /\ heap'[first].size = node.size - 1
                        /\ \A i \in 0..(node.size - 2) :
                              heap'[first].values[i] = node.values[i + 1]
                        /\ heap'[first].prev = node.prev /\ heap'[first].next = node.next
                        /\ \A n \in DOMAIN heap \ {first} : heap'[n] = heap[n]
       /\ (op'.name = "pop_back" /\ op'.ret # None /\ fault' = "none") =>
             LET node == heap[last]
             IN /\ op'.ret = Some(node.values[node.size - 1])
                /\ IF node.size = 1
                   THEN /\ DOMAIN heap' = DOMAIN heap \ {last}
                        /\ last' = node.prev
                        /\ IF node.prev = NULL THEN first' = NULL
                           ELSE /\ first' = first
                                /\ heap'[node.prev] = [heap[node.prev] EXCEPT !.next = NULL]
                        /\ \A n \in DOMAIN heap' \ {node.prev} : heap'[n] = heap[n]
                   ELSE /\ DOMAIN heap' = DOMAIN heap
                        /\ first' = first /\ last' = last
                        /\ heap'[last].size = node.size - 1
                        /\ \A i \in 0..(node.size - 2) :
                              heap'[last].values[i] = node.values[i]
                        /\ heap'[last].prev = node.prev /\ heap'[last].next = node.next
                        /\ \A n \in DOMAIN heap \ {last} : heap'[n] = heap[n]]_vars

\* C35 witness: with COUNT 1 a pop_front has freed the first of three nodes;
\* the new first node has no prev and a next.
C35_Witness ==
    /\ op.name = "pop_front" /\ op.ret # None /\ fault = "none"
    /\ COUNT = 1 /\ len = 2 /\ inserts = 0
    /\ first \in DOMAIN heap /\ first # last
    /\ heap[first].prev = NULL /\ heap[first].next = last

\* C36: insert_before(x) with the cursor on an element inserts x directly
\* before that element in the forward traversal (with the cursor on the first
\* element x becomes the first element) and len grows by one.
C36_InsertBeforeInsertsBeforeCursor ==
    [][(op'.name = "insert_before" /\ cursor.node # NULL) =>
          /\ Traversal' = InsertAt(Traversal, CursorPosition, op'.arg)
          /\ len' = len + 1]_vars

\* C37: no operation dereferences a deallocated node, and first, last and the
\* prev and next links of every node reachable from them designate allocated
\* nodes.
C37_NoUseAfterFree ==
    /\ fault # "use_after_free"
    /\ fault = "none" =>
          /\ first = NULL \/ first \in DOMAIN heap
          /\ last = NULL \/ last \in DOMAIN heap
          /\ ReachableNodes \subseteq DOMAIN heap
          /\ \A n \in ReachableNodes \cap DOMAIN heap :
                /\ heap[n].next = NULL \/ heap[n].next \in DOMAIN heap
                /\ heap[n].prev = NULL \/ heap[n].prev \in DOMAIN heap

\* C38: the allocated nodes are exactly the nodes reached from first along
\* next, each once, so that the walk of Drop frees every node exactly once:
\* after drop(list) no node is allocated.
C38_NoNodeLeaked ==
    /\ [](fault = "none" =>
            /\ ForwardChainSound
            /\ Range(ForwardChain) = DOMAIN heap
            /\ Cardinality(Range(ForwardChain)) = Len(ForwardChain))
    /\ [][op'.name = "drop" => fault' = "none" /\ heap' = <<>>]_vars

\* C39: `self.len -= 1` is never executed at len = 0: no pop overflows the
\* counter (a panic in a debug build, a wrapped value in a release build), and
\* first and last are absent whenever len is 0.
C39_LenNeverUnderflows ==
    /\ fault # "panic_overflow"
    /\ len >= 0
    /\ (fault = "none" /\ ListOwned /\ len = 0) => (first = NULL /\ last = NULL)

\* C40: a cursor is at ghost with index 0, or on an allocated node of the
\* chain from first along next with 0 <= index < size of that node.
C40_CursorAtValidPosition ==
    (cursor.kind = "cursor_mut" /\ fault = "none") =>
       IF cursor.node = NULL THEN cursor.index = 0
       ELSE /\ cursor.node \in DOMAIN heap
            /\ cursor.node \in Range(ForwardChain)
            /\ 0 <= cursor.index
            /\ cursor.index < heap[cursor.node].size
====
